---------------------------- MODULE Spec2Model ----------------------------
(***************************************************************************)
(* A model of the numerical solver stack of PLSSVM: the multi-right-hand-  *)
(* side (preconditioned) conjugate gradients driver of plssvm::csvm, the   *)
(* dimensional reduction and the parameter sanity check.                   *)
(*                                                                         *)
(* real_type values are modelled exactly: a value is a pair <<n, d>> of    *)
(* integers in lowest terms with d >= 0.  d > 0 is the rational n/d; the   *)
(* three pairs with d = 0 are the IEEE-754 specials the C++ arithmetic    *)
(* produces on a division by zero: <<1,0>> = +inf, <<-1,0>> = -inf and    *)
(* <<0,0>> = NaN.  Rounding is not modelled (exact arithmetic).            *)
(***************************************************************************)
EXTENDS Integers, Sequences, FiniteSets, TLC

VARIABLES cg,      \* the activation record of one csvm::conjugate_gradients call
          dr,      \* one csvm object: construction, then perform_dimensional_reduction
          ft,      \* one csvm::fit call on a constructed csvm
          mv,      \* one matrix_view and the last element access through it
          ka,      \* one explicit kernel matrix assembly of the stdpar or HIP backend
          kf,      \* one evaluation of a kernel function on two data points
          la,      \* one linalg call: blas::trsm or direct_cholesky
          pr,      \* one Cholesky preconditioner: precond::cholesky, then its function
          pt,      \* one stream a preconditioner_type is written to and parsed from
          qu,      \* the host thread of one solver run and the device queue it submits to
          tr,      \* one helper::transpose call and the transposition of its result
          cq       \* the opencl::detail::command_queue objects of a program and the queues they wrap

vars == <<cg, dr, ft, mv, ka, kf, la, pr, pt, qu, tr, cq>>

\* what a step of one component leaves alone: the state of all the others
OtherThanCg == <<dr, ft, mv, ka, kf, la, pr, pt, qu, tr, cq>>
OtherThanDr == <<cg, ft, mv, ka, kf, la, pr, pt, qu, tr, cq>>
OtherThanFt == <<cg, dr, mv, ka, kf, la, pr, pt, qu, tr, cq>>
OtherThanMv == <<cg, dr, ft, ka, kf, la, pr, pt, qu, tr, cq>>
OtherThanKa == <<cg, dr, ft, mv, kf, la, pr, pt, qu, tr, cq>>
OtherThanKf == <<cg, dr, ft, mv, ka, la, pr, pt, qu, tr, cq>>
OtherThanLa == <<cg, dr, ft, mv, ka, kf, pr, pt, qu, tr, cq>>
OtherThanPr == <<cg, dr, ft, mv, ka, kf, la, pt, qu, tr, cq>>
OtherThanPt == <<cg, dr, ft, mv, ka, kf, la, pr, qu, tr, cq>>
OtherThanQu == <<cg, dr, ft, mv, ka, kf, la, pr, pt, tr, cq>>
OtherThanTr == <<cg, dr, ft, mv, ka, kf, la, pr, pt, qu, cq>>
OtherThanCq == <<cg, dr, ft, mv, ka, kf, la, pr, pt, qu, tr>>

-----------------------------------------------------------------------------
(* real_type arithmetic *)

Abs(x) == IF x < 0 THEN -x ELSE x

real_type == Int \X Int

\* The arithmetic is written as functions: a function application evaluates
\* its arguments once, so an operand that is itself a long expression (a dot
\* product, a quotient of dot products) is computed once per operation.
GCD[a \in Nat, b \in Nat] == IF b = 0 THEN a ELSE GCD[b, a % b]

\* the canonical pair of the quotient n/d (d may be 0 or negative)
Quotient[n \in Int, d \in Int] ==
    IF d = 0 THEN <<(IF n > 0 THEN 1 ELSE IF n < 0 THEN -1 ELSE 0), 0>>
    ELSE LET g == GCD[Abs(n), Abs(d)]
             s == IF d < 0 THEN -1 ELSE 1
         IN  <<s * (n \div g), s * (d \div g)>>

Norm(n, d) == Quotient[n, d]

NaN  == <<0, 0>>
Zero == <<0, 1>>
One  == <<1, 1>>
MinusOne == <<-1, 1>>
Int2R(i) == <<i, 1>>

IsNaN(a)    == a = NaN
IsFinite(a) == a[2] > 0

RNeg(a) == <<-a[1], a[2]>>

\* a + b; inf + inf = inf, inf - inf = NaN, NaN + x = NaN
Plus[a \in real_type, b \in real_type] ==
    IF a[2] = 0 \/ b[2] = 0
    THEN IF a[2] = 0 /\ b[2] = 0
         THEN (IF a = b THEN a ELSE NaN)
         ELSE (IF a[2] = 0 THEN a ELSE b)
    ELSE LET g == GCD[a[2], b[2]]
         IN  Norm(a[1] * (b[2] \div g) + b[1] * (a[2] \div g), (a[2] \div g) * b[2])

RAdd(a, b) == Plus[a, b]

RSub(a, b) == Plus[a, RNeg(b)]

\* a * b; inf * 0 = NaN
Times[a \in real_type, b \in real_type] ==
    IF a[2] = 0 \/ b[2] = 0
    THEN Norm(a[1] * b[1], 0)
    ELSE LET g1 == GCD[Abs(a[1]), b[2]]
             g2 == GCD[Abs(b[1]), a[2]]
         IN  Norm((a[1] \div g1) * (b[1] \div g2), (a[2] \div g2) * (b[2] \div g1))

RMul(a, b) == Times[a, b]

\* a / b; x / 0 = +-inf for x # 0, 0 / 0 = NaN, x / inf = 0, inf / inf = NaN
Over[a \in real_type, b \in real_type] ==
    IF IsNaN(a) \/ IsNaN(b) THEN NaN
    ELSE IF b[2] = 0 THEN (IF a[2] = 0 THEN NaN ELSE Zero)
    ELSE IF b[1] = 0 THEN Norm(a[1], 0)
    ELSE IF a[2] = 0 THEN Norm(a[1] * b[1], 0)
    ELSE Times[a, Norm(b[2], b[1])]

RDiv(a, b) == Over[a, b]

\* a <= b; every comparison with NaN is false
LessEq[a \in real_type, b \in real_type] ==
    IF IsNaN(a) \/ IsNaN(b) THEN FALSE
    ELSE IF a[2] = 0 \/ b[2] = 0
         THEN (IF a[2] = 0 /\ b[2] = 0 THEN a[1] <= b[1]
               ELSE a[1] * b[2] <= b[1] * a[2])
         ELSE LET g == GCD[a[2], b[2]]
              IN  a[1] * (b[2] \div g) <= b[1] * (a[2] \div g)

RLe(a, b) == LessEq[a, b]

\* a > b; false when either side is NaN
RGt(a, b) == RLe(b, a) /\ ~RLe(a, b)

\* a != 0.0; true for NaN and the infinities
RNonZero(a) == a # Zero

-----------------------------------------------------------------------------
(* vectors and matrices: a vector is a sequence of real_type values, a     *)
(* matrix a sequence of rows.  soa_matrix B of conjugate_gradients holds   *)
(* one row per right-hand side.                                            *)

RECURSIVE DotUpTo(_, _, _)
DotUpTo(u, v, k) ==
    IF k = 0 THEN Zero ELSE RAdd(DotUpTo(u, v, k - 1), RMul(u[k], v[k]))

Dot(u, v) == DotUpTo(u, v, Len(u))

\* operators.hpp: one dot product per row of two equally shaped matrices
rowwise_dot(P, Q) == [r \in DOMAIN P |-> Dot(P[r], Q[r])]

\* operators.hpp: row r of the matrix scaled by scale[r]
rowwise_scale(scale, P) ==
    [r \in DOMAIN P |-> [c \in DOMAIN P[r] |-> RMul(scale[r], P[r][c])]]

\* operators.hpp: rowwise_scale restricted to the rows with mask[r] = 1;
\* the other rows contribute nothing to the sum they are added to
masked_rowwise_scale(mask, scale, P) ==
    [r \in DOMAIN P |->
        [c \in DOMAIN P[r] |-> IF mask[r] = 1 THEN RMul(scale[r], P[r][c]) ELSE Zero]]

MatAdd(P, Q) == [r \in DOMAIN P |-> [c \in DOMAIN P[r] |-> RAdd(P[r][c], Q[r][c])]]
MatSub(P, Q) == [r \in DOMAIN P |-> [c \in DOMAIN P[r] |-> RSub(P[r][c], Q[r][c])]]
VecDiv(u, v) == [r \in DOMAIN u |-> RDiv(u[r], v[r])]

\* soa_matrix{ shape, value }
Filled(num_rhs, num_rows, value) == [r \in 1..num_rhs |-> [c \in 1..num_rows |-> value]]

\* the backend's blas_level_3: C = alpha * A * B + beta * C with a symmetric
\* A (kernel matrix or preconditioner) applied to every row of B
blas_level_3(alpha, A, B, beta, C) ==
    [r \in DOMAIN B |->
        [i \in DOMAIN B[r] |-> RAdd(RMul(alpha, Dot(A[i], B[r])), RMul(beta, C[r][i]))]]


-----------------------------------------------------------------------------
(* csvm::conjugate_gradients *)

\* std::optional M without a value
NoM == <<>>

\* the residual is recalculated from B and X every RefreshPeriod-th iteration
RefreshPeriod == 50

\* a variant of RowConverged with d < eps * eps * d0
RowConvergedStrict(eps, d, d0) ==
    RLe(d, RMul(RMul(eps, eps), d0)) /\ d # RMul(RMul(eps, eps), d0)

\* d <= eps * eps * d0, the test of num_rhs_converged and calculate_rhs_converged_mask
RowConverged(eps, d, d0) == RLe(d, RMul(RMul(eps, eps), d0))

num_rhs_converged(s) ==
    Cardinality({r \in DOMAIN s.delta : RowConverged(s.eps, s.delta[r], s.delta0[r])})

\* 0 if the rhs already converged, 1 otherwise
calculate_rhs_converged_mask(s) ==
    [r \in DOMAIN s.delta |-> IF RowConverged(s.eps, s.delta[r], s.delta0[r]) THEN 0 ELSE 1]

\* a variant of is_residual_zero that looks at the first entry only
is_residual_zero_first(row) == ~RNonZero(row[1])

\* no entry of the residual row compares unequal to 0.0
is_residual_zero(row) == \A c \in DOMAIN row : ~RNonZero(row[c])

\* the mask after the update loop over the rows of R
UpdateMask(s) ==
    LET mask == calculate_rhs_converged_mask(s)
    IN  [r \in DOMAIN mask |->
            IF mask[r] = 1 /\ is_residual_zero(s.R[r]) THEN 0 ELSE mask[r]]

\* delta[i] - (eps * eps * delta0[i]) for the row with the 0-based index i
residual_difference(s, i) == RSub(s.delta[i + 1], RMul(RMul(s.eps, s.eps), s.delta0[i + 1]))

\* the loop of rhs_idx_max_residual_difference from row i on: max_difference is
\* const and stays 0.0
RECURSIVE rhs_idx_loop(_, _, _)
rhs_idx_loop(s, i, idx) ==
    IF i >= Len(s.delta) THEN idx
    ELSE rhs_idx_loop(s, i + 1, IF RGt(residual_difference(s, i), Zero) THEN i ELSE idx)

rhs_idx_max_residual_difference(s) == rhs_idx_loop(s, 0, 0)

\* a variant of RefreshDue: iter % 50 == 0
RefreshDueAtMultiple(iter) == iter % RefreshPeriod = 0

\* iter % 50 == 49
RefreshDue(iter) == iter % RefreshPeriod = RefreshPeriod - 1

\* a variant of LoopCond that lets iter pass max_cg_iter
LoopCondInclusive(s) == s.iter <= s.max_cg_iter /\ num_rhs_converged(s) < Len(s.B)

\* a variant of LoopCond that stops one iteration short of max_cg_iter
LoopCondEarlyStop(s) == s.iter + 1 < s.max_cg_iter /\ num_rhs_converged(s) < Len(s.B)

\* the while condition
LoopCond(s) == s.iter < s.max_cg_iter /\ num_rhs_converged(s) < Len(s.B)

\* the divisor of the average BLAS level 3 time in the final log line
avg_blas_level_3_divisor(s) == 1 + s.iter + s.iter \div RefreshPeriod

\* the three PLSSVM_ASSERTs at the head of the function
CgPreconditions(s) ==
    /\ s.B # <<>> /\ s.B[1] # <<>>
    /\ RGt(s.eps, Zero)
    /\ s.max_cg_iter > 0

\* the activation record of a call that has not started yet
CgCall(A, B, M, eps, max_cg_iter) ==
    [pc |-> "call", A |-> A, B |-> B, M |-> M, eps |-> eps, max_cg_iter |-> max_cg_iter,
     X |-> <<>>, R |-> <<>>, D |-> <<>>, delta |-> <<>>, delta0 |-> <<>>,
     alpha |-> <<>>, mask |-> <<>>, iter |-> 0, blas_calls |-> 0, refreshed |-> {},
     max_residual_difference_idx |-> 0]

\* a local of the function: the value is computed once, then used under the name v
Local(value, Rest(_)) == CHOOSE result \in {Rest(v) : v \in {value}} : TRUE

\* the code from the construction of X to the initialisation of iter
CgInit(s) ==
    LET num_rows == Len(s.B[1])
        num_rhs  == Len(s.B)
        precond  == s.M # NoM
    IN
    Local(Filled(num_rhs, num_rows, One), LAMBDA X :
    Local(blas_level_3(MinusOne, s.A, X, One, s.B), LAMBDA R :
    Local(IF precond THEN blas_level_3(One, s.M, R, Zero, R) ELSE R, LAMBDA D :
    Local(rowwise_dot(R, D), LAMBDA delta :
        [s EXCEPT !.pc = "loop", !.X = X, !.R = R, !.D = D,
                  !.delta = delta, !.delta0 = delta, !.iter = 0,
                  !.blas_calls = IF precond THEN 2 ELSE 1]))))

\* one execution of the loop body
CgBody(s) ==
    LET num_rows == Len(s.B[1])
        num_rhs  == Len(s.B)
        refresh  == RefreshDue(s.iter)
        precond  == s.M # NoM
    IN
    Local(blas_level_3(One, s.A, s.D, Zero, Filled(num_rhs, num_rows, Zero)), LAMBDA Q :
    Local(VecDiv(s.delta, rowwise_dot(s.D, Q)), LAMBDA alpha :
    Local(UpdateMask(s), LAMBDA mask :
    Local(MatAdd(s.X, masked_rowwise_scale(mask, alpha, s.D)), LAMBDA X :
    Local(IF refresh
          THEN blas_level_3(MinusOne, s.A, X, One, s.B)
          ELSE MatSub(s.R, rowwise_scale(alpha, Q)), LAMBDA R :
    Local(IF precond
          THEN blas_level_3(One, s.M, R, Zero, Filled(num_rhs, num_rows, Zero))
          ELSE R, LAMBDA S :
    Local(rowwise_dot(R, S), LAMBDA delta :
    Local(VecDiv(delta, s.delta), LAMBDA beta :
        [s EXCEPT !.X = X, !.R = R, !.D = MatAdd(rowwise_scale(beta, s.D), S),
                  !.delta = delta, !.alpha = alpha, !.mask = mask, !.iter = s.iter + 1,
                  !.max_residual_difference_idx = rhs_idx_max_residual_difference(s),
                  !.blas_calls = s.blas_calls + 1 + (IF refresh THEN 1 ELSE 0)
                                              + (IF precond THEN 1 ELSE 0),
                  !.refreshed = IF refresh THEN s.refreshed \cup {s.iter}
                                ELSE s.refreshed]))))))))

\* the whole call as a function of its arguments: the record at the return
RECURSIVE CgLoop(_)
CgLoop(s) ==
    IF LoopCond(s) THEN CgLoop(CgBody(s))
    ELSE [s EXCEPT !.pc = "done",
                   !.max_residual_difference_idx = rhs_idx_max_residual_difference(s)]

conjugate_gradients(A, B, M, eps, max_cg_iter) == CgLoop(CgInit(CgCall(A, B, M, eps, max_cg_iter)))

-----------------------------------------------------------------------------
(* kernel functions *)

\* the kernel_function_type enumerators in the order of their underlying values 0..5
KernelNames == <<"linear", "polynomial", "rbf", "sigmoid", "laplacian", "chi_squared">>

\* the enumerator with the given underlying value
KernelName(value) == KernelNames[value + 1]

\* The result of a kernel function: fn(arg) + plus with fn the identity, exp or
\* tanh.  exp and tanh are not evaluated: exp(a) and exp(b) are the same value
\* exactly when a = b, and a real added to one of them is kept in plus.
KernelValue(fn, arg) == [fn |-> fn, arg |-> arg, plus |-> Zero]

Real(r) == KernelValue("id", r)

\* v + r for a real_type r
PlusReal(v, r) ==
    IF v.fn = "id" THEN Real(RAdd(v.arg, r)) ELSE [v EXCEPT !.plus = RAdd(v.plus, r)]

RAbs(a) == <<Abs(a[1]), a[2]>>

\* pown(x, n) for an integer n
RECURSIVE pown(_, _)
pown(x, n) ==
    IF n = 0 THEN One
    ELSE IF n < 0 THEN RDiv(One, pown(x, -n))
    ELSE RMul(x, pown(x, n - 1))

\* a variant of feature_reduce whose chi-squared case always divides
feature_reduce_unguarded(kernel, val1, val2) ==
    CASE kernel = "rbf" ->
            LET d == RSub(val1, val2) IN RMul(d, d)
      [] kernel = "laplacian" ->
            RAbs(RSub(val1, val2))
      [] kernel = "chi_squared" ->
            LET s == RAdd(val1, val2)
                d == RSub(val1, val2)
            IN  RDiv(RMul(d, d), s)
      [] OTHER ->
            RMul(val1, val2)

feature_reduce(kernel, val1, val2) ==
    CASE kernel = "rbf" ->
            LET d == RSub(val1, val2) IN RMul(d, d)
      [] kernel = "laplacian" ->
            RAbs(RSub(val1, val2))
      [] kernel = "chi_squared" ->
            LET s == RAdd(val1, val2)
                d == RSub(val1, val2)
            IN  IF s = Zero THEN Zero ELSE RDiv(RMul(d, d), s)
      [] OTHER ->
            RMul(val1, val2)

\* params is the tuple of the kernel's parameters; get<k> is params[k + 1]
apply_kernel_function(kernel, value, params) ==
    CASE kernel = "linear"      -> Real(value)
      [] kernel = "polynomial"  -> Real(pown(RAdd(RMul(params[2], value), params[3]), params[1]))
      [] kernel = "rbf"         -> KernelValue("exp", RMul(RNeg(params[1]), value))
      [] kernel = "sigmoid"     -> KernelValue("tanh", RAdd(RMul(params[1], value), params[2]))
      [] kernel = "laplacian"   -> KernelValue("exp", RMul(RNeg(params[1]), value))
      [] kernel = "chi_squared" -> KernelValue("exp", RMul(RNeg(params[1]), value))

RECURSIVE FeatureSum(_, _, _, _)
FeatureSum(kernel, x, y, dim) ==
    IF dim = 0 THEN Zero
    ELSE RAdd(FeatureSum(kernel, x, y, dim - 1), feature_reduce(kernel, x[dim], y[dim]))

\* kernel_function<kernel>(x, i, y, j, args...): rows i and j are counted from 0
kernel_function(kernel, x, i, y, j, args) ==
    apply_kernel_function(kernel, FeatureSum(kernel, x[i + 1], y[j + 1], Len(x[i + 1])), args)

\* a variant of KernelArgs with gamma and coef0 of the polynomial kernel swapped
KernelArgsSwapped(kernel, params) ==
    CASE kernel = "linear"      -> <<>>
      [] kernel = "polynomial"  -> <<params.degree, params.coef0, params.gamma.value>>
      [] kernel = "rbf"         -> <<params.gamma.value>>
      [] kernel = "sigmoid"     -> <<params.gamma.value, params.coef0>>
      [] kernel = "laplacian"   -> <<params.gamma.value>>
      [] kernel = "chi_squared" -> <<params.gamma.value>>

\* the arguments each case of the switch passes after the two rows
KernelArgs(kernel, params) ==
    CASE kernel = "linear"      -> <<>>
      [] kernel = "polynomial"  -> <<params.degree, params.gamma.value, params.coef0>>
      [] kernel = "rbf"         -> <<params.gamma.value>>
      [] kernel = "sigmoid"     -> <<params.gamma.value, params.coef0>>
      [] kernel = "laplacian"   -> <<params.gamma.value>>
      [] kernel = "chi_squared" -> <<params.gamma.value>>

\* kernel_function(x, i, y, j, params): the overload that dispatches on params.kernel_type
kernel_function_of(x, i, y, j, params) ==
    kernel_function(KernelName(params.kernel_type), x, i, y, j,
                    KernelArgs(KernelName(params.kernel_type), params))

-----------------------------------------------------------------------------
(* csvm::sanity_check_parameter and csvm::perform_dimensional_reduction *)

\* gamma is a variant: a real_type the user provided, or the default that
\* stands for 1 / num_features
GammaReal(r) == [is_real |-> TRUE, value |-> r]
GammaDefault == [is_real |-> FALSE, value |-> Zero]

Parameter(kernel_type, degree, gamma, coef0, cost) ==
    [kernel_type |-> kernel_type, degree |-> degree, gamma |-> gamma,
     coef0 |-> coef0, cost |-> cost]

\* a variant of sanity_check_parameter that rejects gamma < 0 only
sanity_check_parameter_lenient(params) ==
    IF params.kernel_type < 0 \/ params.kernel_type >= 6
    THEN "invalid_parameter"
    ELSE IF /\ KernelName(params.kernel_type) # "linear"
            /\ params.gamma.is_real
            /\ RLe(params.gamma.value, Zero) /\ params.gamma.value # Zero
         THEN "invalid_parameter"
         ELSE "ok"

\* "ok" when the function returns, "invalid_parameter" when it throws
sanity_check_parameter(params) ==
    IF params.kernel_type < 0 \/ params.kernel_type >= 6
    THEN "invalid_parameter"
    ELSE IF /\ KernelName(params.kernel_type) # "linear"
            /\ params.gamma.is_real
            /\ RLe(params.gamma.value, Zero)
         THEN "invalid_parameter"
         ELSE "ok"

\* fit: a gamma that was not provided becomes 1 / num_features for the run
ResolveGamma(params, A) ==
    IF params.gamma.is_real THEN params
    ELSE [params EXCEPT !.gamma =
              GammaReal(RDiv(One, Int2R(IF A = <<>> THEN 0 ELSE Len(A[1]))))]

num_rows_reduced(A) == Len(A) - 1

\* q_red[i] of the parallel loop, i counted from 0
q_red_entry(params, A, i) ==
    kernel_function(KernelName(params.kernel_type), A, i, A, num_rows_reduced(A),
                    KernelArgs(KernelName(params.kernel_type), params))

QA_cost(params, A) ==
    PlusReal(kernel_function_of(A, num_rows_reduced(A), A, num_rows_reduced(A), params),
             RDiv(One, params.cost))

DrIdle ==
    [pc |-> "idle", params |-> Parameter(0, 0, GammaDefault, Zero, One), A |-> <<>>,
     q_red |-> <<>>, writes |-> <<>>, pending |-> {}, QA_cost |-> Real(Zero)]

-----------------------------------------------------------------------------
(* csvm::fit: the named arguments, the labels, the gamma of the run, the device
   setup and the solver call *)

\* a named argument of fit: passed with a value, or not passed
Given(v) == [given |-> TRUE, value |-> v]
NotGiven(default) == [given |-> FALSE, value |-> default]

\* the default of epsilon
DefaultEpsilon == Norm(1, 1000)

\* epsilon_val and max_iter_val: the passed value, else the default
epsilon_val(epsilon) == IF epsilon.given THEN epsilon.value ELSE DefaultEpsilon
max_iter_val(max_iter, data) == IF max_iter.given THEN max_iter.value ELSE data.num_features

\* a variant of check_named_args that lets epsilon == 0 pass
check_named_args_negative_only(epsilon, max_iter) ==
    IF epsilon.given /\ RLe(epsilon.value, Zero) /\ epsilon.value # Zero
    THEN "invalid_parameter"
    ELSE IF max_iter.given /\ max_iter.value = 0
         THEN "invalid_parameter"
         ELSE "ok"

\* the run time checks of the named arguments: "invalid_parameter" when fit throws
check_named_args(epsilon, max_iter) ==
    IF epsilon.given /\ RLe(epsilon.value, Zero)
    THEN "invalid_parameter"
    ELSE IF max_iter.given /\ max_iter.value = 0
         THEN "invalid_parameter"
         ELSE "ok"

\* the end of fit: a default gamma is reset to 0.0
gamma_at_return(s) == IF s.reset_gamma THEN GammaDefault ELSE s.params.gamma

\* one fit call on a csvm holding params_, at its entry
FitCall(params, data, epsilon, max_iter) ==
    [pc |-> "call", params |-> params, data |-> data,
     epsilon |-> epsilon, max_iter |-> max_iter,
     epsilon_val |-> DefaultEpsilon, max_iter_val |-> data.num_features,
     reset_gamma |-> FALSE, device_setups |-> 0, solver_calls |-> 0,
     params0 |-> params]

FtIdle ==
    [FitCall(Parameter(0, 0, GammaDefault, Zero, One),
             [num_features |-> 1, has_labels |-> FALSE],
             NotGiven(DefaultEpsilon), NotGiven(1)) EXCEPT !.pc = "idle"]

\* how a call into the backend ends: it returns, or a backend error code is
\* raised as an exception that fit does not catch
backend_outcomes == {"returned", "backend_exception"}

\* the gamma of the run: 1 / num_features when none was provided
FitGamma(params, data) ==
    IF params.gamma.is_real /\ params.gamma.value # Zero
    THEN params.gamma
    ELSE GammaReal(RDiv(One, Int2R(data.num_features)))

-----------------------------------------------------------------------------
(* matrix_view: a general, lower or upper triangular view over a buffer *)

matrix_type == {"general", "lower", "upper"}

matrix_view(type, n_rows, n_cols, padding) ==
    [type |-> type, n_rows |-> n_rows, n_cols |-> n_cols, padding |-> padding]

\* size(): the number of elements of the view
size(view) ==
    IF view.type = "general"
    THEN view.n_rows * view.n_cols
    ELSE (view.n_rows * (view.n_rows + 1)) \div 2

\* a variant of upper_offset that takes the row start of a lower triangular view
upper_offset_as_lower(n_rows, padding, row, col) ==
    ((row * (row + 1)) \div 2 + (col - row)) + (padding * row)

\* the buffer offset operator() of an upper triangular view addresses
upper_offset(n_rows, padding, row, col) ==
    ((row * (2 * n_rows - row + 1)) \div 2 + (col - row)) + (padding * row)

\* the buffer offset operator() of a lower triangular view addresses
lower_offset(padding, row, col) ==
    ((row * (row + 1)) \div 2 + col) + (padding * row)

\* the buffer offset operator() of a general view addresses
general_offset(n_cols, padding, row, col) ==
    (row * n_cols + col) + (padding * row)

\* operator(): the offset of element (row, col) in the buffer of the view
offset(view, row, col) ==
    CASE view.type = "general" -> general_offset(view.n_cols, view.padding, row, col)
      [] view.type = "lower" -> lower_offset(view.padding, row, col)
      [] view.type = "upper" -> upper_offset(view.n_rows, view.padding, row, col)

\* the elements a view is accessed at: the stored triangle, or all of a general view
Elements(view) ==
    {rc \in (0..(view.n_rows - 1)) \X (0..(view.n_cols - 1)) :
        CASE view.type = "general" -> TRUE
          [] view.type = "lower" -> rc[1] >= rc[2]
          [] view.type = "upper" -> rc[2] >= rc[1]}

MvIdle == [pc |-> "idle", view |-> matrix_view("general", 0, 0, 0), row |-> 0, col |-> 0, idx |-> 0]

-----------------------------------------------------------------------------
(* explicit kernel matrix assembly: device_kernel_assembly of the stdpar backend
   and device_kernel_assembly_linear, _polynomial and _rbf of the HIP backend *)

\* the build constants, scaled down
PADDING_SIZE == 1
THREAD_BLOCK_SIZE == 2
FEATURE_BLOCK_SIZE == 2

\* The device buffer of the data matrix A, one column of the buffer per feature
\* and `padding` zero entries after the points of each feature: the value at
\* offset k.
soa_data(A, padding, k) ==
    LET stride == Len(A) + padding
        f == k \div stride
        r == k % stride
    IN  IF r < Len(A) /\ f < Len(A[1]) THEN A[r + 1][f + 1] ELSE Zero

\* one assembly: the kernel of the instantiation, the build flag of the HIP
\* kernels, the data, q, QA_cost, cost and the kernel's arguments
KaCall(backend, kernel, use_gemm, A, q, QA_cost_, cost, args) ==
    [pc |-> "call", backend |-> backend, kernel |-> kernel, use_gemm |-> use_gemm,
     A |-> A, q |-> q, QA_cost |-> QA_cost_, cost |-> cost, args |-> args,
     pending |-> {}, writes |-> {}, ret |-> <<>>]

KaIdle == [KaCall("stdpar", "linear", FALSE, <<>>, <<>>, Zero, Zero, <<>>) EXCEPT !.pc = "idle"]

\* one store to ret: the work item and the statement that stored, the offset
\* and the value
Store(thread, stmt, idx, value) ==
    [thread |-> thread, stmt |-> stmt, offset |-> idx, value |-> value]

\* stdpar: the offset of the store with the row stride of an unpadded matrix
stdpar_offset_unpadded(dept, row_idx, col_idx) ==
    row_idx * dept + col_idx - (row_idx * (row_idx + 1)) \div 2

\* stdpar: the offset of the store
stdpar_offset(dept, row_idx, col_idx) ==
    row_idx * (dept + PADDING_SIZE) + col_idx - (row_idx * (row_idx + 1)) \div 2

\* stdpar: the loop over the features, f of them done
RECURSIVE stdpar_features(_, _, _, _, _)
stdpar_features(A, dept, row_idx, col_idx, f) ==
    IF f = 0 THEN Zero
    ELSE RAdd(stdpar_features(A, dept, row_idx, col_idx, f - 1),
              RMul(soa_data(A, PADDING_SIZE, (f - 1) * (dept + 1 + PADDING_SIZE) + row_idx),
                   soa_data(A, PADDING_SIZE, (f - 1) * (dept + 1 + PADDING_SIZE) + col_idx)))

\* stdpar: what the work item (row_idx, col_idx) stores
stdpar_work_item(c, row_idx, col_idx) ==
    LET dept == Len(c.q)
        temp == RAdd(RSub(RSub(c.QA_cost, c.q[row_idx + 1]), c.q[col_idx + 1]),
                     stdpar_features(c.A, dept, row_idx, col_idx, Len(c.A[1])))
    IN  IF row_idx <= col_idx
        THEN {Store(<<row_idx, col_idx>>, 1, stdpar_offset(dept, row_idx, col_idx),
                    Real(IF row_idx = col_idx THEN RAdd(temp, c.cost) ELSE temp))}
        ELSE {}

\* stdpar: the range of work items
stdpar_range(dept) == {<<k \div dept, k % dept>> : k \in 0..(dept * dept - 1)}

\* HIP: data_cache_i[fy][tx] and data_cache_j[fy][tx] of block (bx, by) after the
\* loads of the feature block starting at dim
data_cache_i(A, num_rows, bx, dim, fy, tx) ==
    IF dim + fy < Len(A[1]) /\ bx * THREAD_BLOCK_SIZE + tx < num_rows
    THEN soa_data(A, 0, (dim + fy) * (num_rows + 1) + bx * THREAD_BLOCK_SIZE + tx)
    ELSE Zero

data_cache_j(A, num_rows, by, dim, fy, tx) ==
    IF dim + fy < Len(A[1]) /\ by * THREAD_BLOCK_SIZE + tx < num_rows
    THEN soa_data(A, 0, (dim + fy) * (num_rows + 1) + by * THREAD_BLOCK_SIZE + tx)
    ELSE Zero

\* HIP: what one step of the calculation loop adds to temp
hip_reduce(kernel, cache_i, cache_j) ==
    IF kernel = "rbf"
    THEN LET d == RSub(cache_i, cache_j) IN RMul(d, d)
    ELSE RMul(cache_i, cache_j)

\* HIP: temp of thread (tx, ty) of block (bx, by) after t steps of the
\* calculation loop, the feature blocks taken one after the other
RECURSIVE hip_temp(_, _, _, _, _, _, _, _)
hip_temp(kernel, A, num_rows, bx, by, tx, ty, t) ==
    IF t = 0 THEN Zero
    ELSE LET dim == ((t - 1) \div FEATURE_BLOCK_SIZE) * FEATURE_BLOCK_SIZE
             block_dim == (t - 1) % FEATURE_BLOCK_SIZE
         IN  RAdd(hip_temp(kernel, A, num_rows, bx, by, tx, ty, t - 1),
                  hip_reduce(kernel, data_cache_i(A, num_rows, bx, dim, block_dim, tx),
                                     data_cache_j(A, num_rows, by, dim, block_dim, ty)))

\* HIP: the number of steps of the calculation loop over all feature blocks
hip_steps(num_features) ==
    ((num_features + FEATURE_BLOCK_SIZE - 1) \div FEATURE_BLOCK_SIZE) * FEATURE_BLOCK_SIZE

\* HIP: the kernel function applied to temp
hip_kernel_value(kernel, temp, args) ==
    CASE kernel = "linear"     -> Real(temp)
      [] kernel = "polynomial" -> Real(pown(RAdd(RMul(args[2], temp), args[3]), args[1]))
      [] kernel = "rbf"        -> KernelValue("exp", RMul(RNeg(args[1]), temp))

\* HIP: the offsets thread (i, j) stores to, in the order of the statements; a
\* variant that mirrors into the packed layout, and the code
hip_offsets_mirrored(use_gemm, num_rows, i, j) ==
    IF use_gemm
    THEN <<j * num_rows + i, i * num_rows + j>>
    ELSE <<j * num_rows + i - (j * (j + 1)) \div 2, i * num_rows + j - (i * (i + 1)) \div 2>>

hip_offsets(use_gemm, num_rows, i, j) ==
    IF use_gemm
    THEN <<j * num_rows + i, i * num_rows + j>>
    ELSE <<j * num_rows + i - (j * (j + 1)) \div 2>>

\* HIP: what thread (tx, ty) of block (bx, by) stores
hip_thread(c, bx, by, tx, ty) ==
    LET num_rows == Len(c.q)
        i == bx * THREAD_BLOCK_SIZE + tx
        j == by * THREAD_BLOCK_SIZE + ty
        temp == hip_temp(c.kernel, c.A, num_rows, bx, by, tx, ty, hip_steps(Len(c.A[1])))
    IN  IF bx >= by /\ i < num_rows /\ j < num_rows /\ i >= j
        THEN LET value == PlusReal(hip_kernel_value(c.kernel, temp, c.args),
                                   RAdd(RSub(RSub(c.QA_cost, c.q[i + 1]), c.q[j + 1]),
                                        IF i = j THEN c.cost ELSE Zero))
                 at == hip_offsets(c.use_gemm, num_rows, i, j)
             IN  {Store(<<i, j>>, k, at[k], value) : k \in DOMAIN at}
        ELSE {}

\* HIP: what block (bx, by) stores
hip_block(c, bx, by) ==
    UNION {hip_thread(c, bx, by, tx, ty) :
              tx \in 0..(THREAD_BLOCK_SIZE - 1), ty \in 0..(THREAD_BLOCK_SIZE - 1)}

\* HIP: the grid covers num_rows threads in each dimension
hip_grid(num_rows) ==
    LET blocks == (num_rows + THREAD_BLOCK_SIZE - 1) \div THREAD_BLOCK_SIZE
    IN  (0..(blocks - 1)) \X (0..(blocks - 1))

\* the stores to one offset that are the last of their work item to that offset
\* (a work item executes its statements in order)
LastStores(stores, at) ==
    {w \in stores : /\ w.offset = at
                     /\ ~\E v \in stores : /\ v.offset = at /\ v.thread = w.thread
                                            /\ v.stmt > w.stmt}

\* ret after the stores of concurrently running work items: the memories that
\* can result, one for every choice of the store that comes last at each offset
RECURSIVE ret_after(_, _, _)
ret_after(ret, stores, offsets) ==
    IF offsets = {} THEN {ret}
    ELSE LET at == CHOOSE o \in offsets : TRUE
         IN  UNION {ret_after([k \in DOMAIN ret \cup {at} |-> IF k = at THEN w.value ELSE ret[k]],
                              stores, offsets \ {at}) : w \in LastStores(stores, at)}

\* the assertions of the stdpar kernel
stdpar_preconditions(c) ==
    /\ Len(c.q) = Len(c.A) - 1
    /\ c.cost # Zero

-----------------------------------------------------------------------------
(* linalg: blas::trsm and direct_cholesky on matrix views *)

\* a view together with the buffer it points into; offset k of the buffer is
\* data[k + 1]
Matrix(view, data) == [view |-> view, data |-> data]

\* M(row, col) read, and M(row, col) = value
Get(M, row, col) == M.data[offset(M.view, row, col) + 1]
Set(M, row, col, value) == [M EXCEPT !.data[offset(M.view, row, col) + 1] = value]

\* helper::create_shared_view(elements, n_rows, n_cols): no padding
create_shared_view(type, elements, n_rows, n_cols) ==
    Matrix(matrix_view(type, n_rows, n_cols, 0), elements)

\* helper::zeros_like(A)
zeros_like(A) == Matrix(A.view, [k \in 1..size(A.view) |-> Zero])

\* the root of a perfect square n >= 0
ISqrt(n) == CHOOSE r \in 0..n : r * r <= n /\ (r + 1) * (r + 1) > n
IsSquare(n) == n >= 0 /\ ISqrt(n) * ISqrt(n) = n

\* the radicand has a root among the rationals, or none among the reals
HasExactSqrt(x) == ~IsFinite(x) \/ x[1] < 0 \/ (IsSquare(x[1]) /\ IsSquare(x[2]))

\* std::sqrt: NaN for a negative radicand; of a radicand without an exact root
\* only the sign is kept in the model, and HasExactSqrt tells the two apart
sqrt(x) ==
    IF IsNaN(x) \/ (x[1] < 0) THEN NaN
    ELSE IF ~IsFinite(x) THEN x
    ELSE Norm(ISqrt(x[1]), ISqrt(x[2]))

\* direct_cholesky: sum over k < row of U(k, row) * U(k, col), the first k terms
RECURSIVE cholesky_sum(_, _, _, _)
cholesky_sum(U, row, col, k) ==
    IF k = 0 THEN Zero
    ELSE RAdd(cholesky_sum(U, row, col, k - 1), RMul(Get(U, k - 1, row), Get(U, k - 1, col)))

\* a variant of cholesky_element that divides the diagonal element as well
cholesky_element_divided(A, U, row, col) ==
    RDiv(RSub(Get(A, row, col), cholesky_sum(U, row, col, row)), Get(U, row, row))

\* direct_cholesky: the value stored to U(row, col)
cholesky_element(A, U, row, col) ==
    IF row = col
    THEN sqrt(RSub(Get(A, row, row), cholesky_sum(U, row, col, row)))
    ELSE RDiv(RSub(Get(A, row, col), cholesky_sum(U, row, col, row)), Get(U, row, row))

\* direct_cholesky: the elements (row, col), col >= row, in the order of the loops
cholesky_order(n) ==
    LET before(a, b) == a[1] < b[1] \/ (a[1] = b[1] /\ a[2] < b[2])
        todo == {rc \in (0..(n - 1)) \X (0..(n - 1)) : rc[2] >= rc[1]}
    IN  [t \in 1..Cardinality(todo) |->
            CHOOSE rc \in todo : Cardinality({o \in todo : before(o, rc)}) = t - 1]

\* trsm: the dot product of the forward solve, the terms k < upto, and of the
\* backward solve, the terms from down to n_rows - 1
RECURSIVE forward_dot(_, _, _, _, _)
forward_dot(A, X, row, col, upto) ==
    IF upto = 0 THEN Zero
    ELSE RAdd(forward_dot(A, X, row, col, upto - 1),
              RMul(Get(A, row, upto - 1), Get(X, upto - 1, col)))

RECURSIVE backward_dot(_, _, _, _, _, _)
backward_dot(A, X, r, col, from, n_rows) ==
    IF from >= n_rows THEN Zero
    ELSE RAdd(RMul(Get(A, r, from), Get(X, from, col)),
              backward_dot(A, X, r, col, from + 1, n_rows))

\* trsm: the row the step `row` of the inner loop solves for
trsm_row(type, n_rows, row) == IF type = "lower" THEN row ELSE (n_rows - 1) - row

\* trsm: the rows of X the step for row r reads in column col
trsm_reads(type, n_rows, r) ==
    IF type = "lower" THEN 0..(r - 1) ELSE (r + 1)..(n_rows - 1)

\* a variant of trsm_element that leaves out the division by the diagonal
trsm_element_undivided(type, A, B, X, r, col) ==
    RSub(Get(B, r, col),
         IF type = "lower" THEN forward_dot(A, X, r, col, r)
         ELSE backward_dot(A, X, r, col, r + 1, B.view.n_rows))

\* trsm: the value stored to X(r, col)
trsm_element(type, A, B, X, r, col) ==
    RDiv(RSub(Get(B, r, col),
              IF type = "lower" THEN forward_dot(A, X, r, col, r)
              ELSE backward_dot(A, X, r, col, r + 1, B.view.n_rows)),
         Get(A, r, r))

\* one linalg call at its entry: for trsm A, B and X, for direct_cholesky A and
\* the factor U in X; t counts the steps of the loops done, written holds the
\* elements of X stored so far, stale tells whether an element of X was read
\* before it was stored, inexact whether a root without an exact value was taken
LaCall(op, A, B, X) ==
    [pc |-> "call", op |-> op, A |-> A, B |-> B, X |-> X, A0 |-> A, B0 |-> B,
     t |-> 0, written |-> {}, stale |-> FALSE, inexact |-> FALSE]

EmptyMatrix == Matrix(matrix_view("general", 0, 0, 0), <<>>)

LaIdle == [LaCall("trsm", EmptyMatrix, EmptyMatrix, EmptyMatrix) EXCEPT !.pc = "idle"]

\* direct_cholesky: one pass of the body of the inner loop
cholesky_step(c) ==
    LET rc == cholesky_order(c.A.view.n_rows)[c.t + 1]
        row == rc[1]
        col == rc[2]
        reads == {<<k, row>> : k \in 0..(row - 1)} \cup {<<k, col>> : k \in 0..(row - 1)}
                    \cup (IF row = col THEN {} ELSE {<<row, row>>})
    IN  [c EXCEPT !.X = Set(c.X, row, col, cholesky_element(c.A, c.X, row, col)),
                  !.t = @ + 1,
                  !.written = @ \cup {rc},
                  !.stale = @ \/ ~(reads \subseteq c.written),
                  !.inexact = @ \/ (row = col /\
                      ~HasExactSqrt(RSub(Get(c.A, row, row), cholesky_sum(c.X, row, col, row))))]

\* trsm: one pass of the body of the inner loop
trsm_step(c) ==
    LET n_rows == c.B.view.n_rows
        col == c.t \div n_rows
        r == trsm_row(c.A.view.type, n_rows, c.t % n_rows)
    IN  [c EXCEPT !.X = Set(c.X, r, col, trsm_element(c.A.view.type, c.A, c.B, c.X, r, col)),
                  !.t = @ + 1,
                  !.written = @ \cup {<<r, col>>},
                  !.stale = @ \/ ~({<<k, col>> : k \in trsm_reads(c.A.view.type, n_rows, r)}
                                      \subseteq c.written)]

\* the number of passes of the loops
la_steps(c) ==
    IF c.op = "direct_cholesky"
    THEN (c.A.view.n_rows * (c.A.view.n_rows + 1)) \div 2
    ELSE c.B.view.n_rows * c.B.view.n_cols

\* the assertion of trsm: B and X have the same shape
trsm_preconditions(c) ==
    c.B.view.n_rows = c.X.view.n_rows /\ c.B.view.n_cols = c.X.view.n_cols

-----------------------------------------------------------------------------
(* precond::cholesky and the preconditioner function it returns *)

\* sizeof(real_type)
SizeofReal == 8

\* direct_cholesky and trsm run to their end
RECURSIVE la_run(_)
la_run(c) ==
    IF c.t = la_steps(c) THEN c
    ELSE la_run(IF c.op = "trsm" THEN trsm_step(c) ELSE cholesky_step(c))

direct_cholesky(A, U) == la_run(LaCall("direct_cholesky", A, EmptyMatrix, U)).X

trsm(A, B, X) == la_run(LaCall("trsm", A, B, X)).X

\* A soa_matrix of shape (x, y) with the same padding in both dimensions:
\* element (row, col) is data[col * (x + padding) + row + 1].
soa_matrix(x, y, padding, data) == [x |-> x, y |-> y, padding |-> padding, data |-> data]

soa_get(S, row, col) == S.data[col * (S.x + S.padding) + row + 1]

\* ::sycl::malloc_shared<real_type>(count): the memory holds whatever it held
malloc_shared(count, garbage) == [k \in 1..count |-> garbage]

\* memcpy of the first count elements of src to dst
memcpy(dst, src, count) == [k \in DOMAIN dst |-> IF k <= count THEN src[k] ELSE dst[k]]

\* helper::create_shared_view(data, n_rows, n_cols, padding): size_bytes is passed
\* to malloc_shared as the number of elements
create_padded_shared_view(data, n_rows, n_cols, padding, garbage) ==
    Matrix(matrix_view("general", n_rows, n_cols, padding),
           memcpy(malloc_shared(n_rows * n_cols * SizeofReal, garbage), data, n_rows * n_cols))

\* helper::zeros_like(A) with the memory it allocates: size_bytes elements, of
\* which the first size() are set to zero
zeros_like_allocated(A, garbage) ==
    Matrix(A.view,
           [k \in 1..(size(A.view) * SizeofReal) |-> IF k <= size(A.view) THEN Zero ELSE garbage])

\* the type of the transposed view
transposed_type(type) == IF type = "upper" THEN "lower" ELSE "upper"

\* helper::transpose allocates size_bytes elements and views them as a matrix of
\* the other triangle, of the same order and without padding
transpose_allocate(A, garbage) ==
    Matrix(matrix_view(transposed_type(A.view.type), A.view.n_rows, A.view.n_rows, 0),
           malloc_shared(size(A.view) * SizeofReal, garbage))

\* the work items of range_xy that pass the test col >= row (from upper) or
\* row >= col (from lower); the others do nothing
transpose_items(A) == Elements(A.view)

\* a variant of the work item that copies to the same index of the result, and
\* the work item (row, col): L(col, row) = U(row, col), or U(col, row) = L(row, col)
transpose_item_unswapped(A, AT, row, col) ==
    [AT EXCEPT !.data[offset(A.view, row, col) + 1] = Get(A, row, col)]

transpose_item(A, AT, row, col) == Set(AT, col, row, Get(A, row, col))

\* the parallel_for from the given work items on, one after the other
RECURSIVE transpose_run(_, _, _)
transpose_run(A, AT, items) ==
    IF items = {} THEN AT
    ELSE LET rc == CHOOSE rc \in items : TRUE
         IN  transpose_run(A, transpose_item(A, AT, rc[1], rc[2]), items \ {rc})

\* helper::transpose(A)
transpose(A, garbage) == transpose_run(A, transpose_allocate(A, garbage), transpose_items(A))

\* one transposition: the source as it is and as it was passed, the result, the
\* work items still to run, the offsets stored to, and the matrix the first of
\* two transpositions was given
TrCall(A, garbage, round, original) ==
    [pc |-> "running", A |-> A, A0 |-> A, AT |-> transpose_allocate(A, garbage),
     pending |-> transpose_items(A), writes |-> {}, garbage |-> garbage,
     round |-> round, original |-> original]

TrIdle ==
    [pc |-> "idle", A |-> EmptyMatrix, A0 |-> EmptyMatrix, AT |-> EmptyMatrix,
     pending |-> {}, writes |-> {}, garbage |-> Zero, round |-> 0, original |-> EmptyMatrix]

\* the preconditioner function: Y and S after it has run
apply_preconditioner(M, R, S, garbage) ==
    LET R_view == create_padded_shared_view(R.data, R.x, R.y, R.padding, garbage)
        S_view == create_padded_shared_view(S.data, S.x, S.y, S.padding, garbage)
        MT == transpose(M, garbage)
        Y == trsm(MT, R_view, zeros_like_allocated(R_view, garbage))
        S_solved == trsm(M, Y, S_view)
    IN  [Y |-> Y, S |-> [S EXCEPT !.data = memcpy(S.data, S_solved.data, size(S_solved.view))]]

\* the assertions of the preconditioner function hold by the type of
\* soa_matrix here: the padding is the same in both dimensions

EmptySoa == soa_matrix(0, 0, 0, <<>>)

\* one preconditioner: K and M as passed to precond::cholesky, R and S as passed
\* to the function, Y as it was before it was freed
PrIdle ==
    [pc |-> "idle", K |-> EmptyMatrix, M |-> EmptyMatrix, K0 |-> EmptyMatrix,
     M0 |-> EmptyMatrix, R |-> EmptySoa, R0 |-> EmptySoa, S |-> EmptySoa, Y |-> EmptyMatrix]

-----------------------------------------------------------------------------
(* preconditioner_type and its stream operators *)

preconditioner_type == {"none", "jacobi", "cholesky"}

\* a std::string is the sequence of its characters
UpperCase == <<"A", "B", "C", "D", "E", "F", "G", "H", "I", "J", "K", "L", "M", "N", "O", "P", "Q", "R", "S", "T", "U", "V", "W", "X", "Y", "Z">>
LowerCase == <<"a", "b", "c", "d", "e", "f", "g", "h", "i", "j", "k", "l", "m", "n", "o", "p", "q", "r", "s", "t", "u", "v", "w", "x", "y", "z">>
WhiteSpace == {" "}

\* std::tolower of one character
to_lower(ch) ==
    IF \E k \in 1..Len(UpperCase) : UpperCase[k] = ch
    THEN LowerCase[CHOOSE k \in 1..Len(UpperCase) : UpperCase[k] = ch]
    ELSE ch

\* detail::to_lower_case(str)
to_lower_case(str) == [k \in 1..Len(str) |-> to_lower(str[k])]

\* a stream: the characters still to be read, or the ones written, and failbit
Stream(buf, fail) == [buf |-> buf, fail |-> fail]

\* out << "...": the characters are appended unless the stream has failed
Insert(out, str) == IF out.fail THEN out ELSE Stream(out.buf \o str, FALSE)

\* a variant of operator<< that names every value, and the code
put_preconditioner_type_named(out, preconditioning) ==
    CASE preconditioning = "none"     -> Insert(out, <<"n", "o", "n", "e">>)
      [] preconditioning = "jacobi"   -> Insert(out, <<"j", "a", "c", "o", "b", "i">>)
      [] preconditioning = "cholesky" -> Insert(out, <<"c", "h", "o", "l", "e", "s", "k", "y">>)

\* std::ostream &operator<<(std::ostream &out, preconditioner_type)
put_preconditioner_type(out, preconditioning) ==
    CASE preconditioning = "none"   -> Insert(out, <<"n", "o", "n", "e">>)
      [] preconditioning = "jacobi" -> Insert(out, <<"j", "a", "c", "o", "b", "i">>)
      [] OTHER                      -> Insert(out, <<"u", "n", "k", "n", "o", "w", "n">>)

\* the number of leading characters of buf that are white space (skip = TRUE) or
\* that are not
RECURSIVE Span(_, _)
Span(buf, skip) ==
    IF buf = <<>> \/ ((buf[1] \in WhiteSpace) # skip) THEN 0
    ELSE 1 + Span(Tail(buf), skip)

\* in >> str: leading white space is skipped and the characters up to the next
\* white space are extracted; failbit is set when none is extracted
Extract(in) ==
    IF in.fail THEN [in |-> in, str |-> <<>>]
    ELSE LET skipped == SubSeq(in.buf, Span(in.buf, TRUE) + 1, Len(in.buf))
             n == Span(skipped, FALSE)
         IN  [in |-> Stream(SubSeq(skipped, n + 1, Len(skipped)), n = 0),
              str |-> SubSeq(skipped, 1, n)]

\* std::istream &operator>>(std::istream &in, preconditioner_type &preconditioning):
\* the stream and the variable after the call
get_preconditioner_type(in, preconditioning) ==
    LET e == Extract(in)
        str == to_lower_case(e.str)
    IN  IF str = <<"n", "o", "n", "e">>
        THEN [in |-> e.in, preconditioning |-> "none"]
        ELSE IF str = <<"j", "a", "c", "o", "b", "i">>
        THEN [in |-> e.in, preconditioning |-> "jacobi"]
        ELSE [in |-> Stream(e.in.buf, TRUE), preconditioning |-> preconditioning]

\* one stream: what was put into it (a value written with operator<<, or text),
\* the variable the value is parsed into and what it held before
PtIdle ==
    [pc |-> "idle", stream |-> Stream(<<>>, FALSE), written |-> "none", text |-> <<>>,
     preconditioning |-> "none", before |-> "none", reads |-> 0]

-----------------------------------------------------------------------------
(* provider operations: the host thread, the device queue and queue.wait() *)

\* the provider operations of a solver run
ProviderOps == {"run_blas_level_3", "trsm", "direct_cholesky", "transpose"}

\* the number of steps of the device task of an operation on a matrix of order n
\* with k right-hand sides: the passes of the loops of the single_task of trsm and
\* direct_cholesky, the work items of the parallel_for of transpose, the entries
\* of C of a BLAS level 3 call
task_steps(op, n, k) ==
    CASE op = "trsm"             -> n * k
      [] op = "direct_cholesky"  -> (n * (n + 1)) \div 2
      [] op = "transpose"        -> n * n
      [] op = "run_blas_level_3" -> n * k

\* queue.submit: the task is in the queue, nothing of it has run
DeviceTask(id, op, n, k) == [id |-> id, op |-> op, total |-> task_steps(op, n, k), done |-> 0]

\* a variant of queue.wait() that returns at once, and queue.wait(): it returns
\* when every task submitted to the queue has completed
queue_wait_unblocked(tasks) == TRUE

queue_wait(tasks) == \A t \in tasks : t.done = t.total

\* the host thread: where it is, the operation it is in, how many operations it
\* has issued, the tasks in the queue, and how many tasks had completed when a
\* queue.wait() returned
QuIdle == [pc |-> "idle", op |-> "trsm", issued |-> 0, tasks |-> {}, completed |-> 0]

-----------------------------------------------------------------------------
(* the calls the model explores *)

\* the largest number of words parsed from one stream
MaxReads == 2
\* the largest number of right-hand sides in B
MaxRhs == 2
\* the largest max_cg_iter: one more than RefreshPeriod, so a run passes a refresh
MaxCgIter == 51

R2(a, b) == <<Int2R(a), Int2R(b)>>

\* symmetric 2 x 2 matrices: two positive definite ones, an indefinite and a
\* singular one
SpdDense == <<R2(2, 1), R2(1, 2)>>
SpdDiag  == <<R2(2, 0), R2(0, 1)>>
SpdMatrices == {SpdDense, SpdDiag}
AChoices == SpdMatrices \cup {<<R2(3, 0), R2(0, -1)>>, <<R2(4, 2), R2(2, 1)>>}

\* preconditioners: none, the inverse diagonal of SpdDiag; an indefinite one
MJacobi == << <<Norm(1, 2), Zero>>, <<Zero, One>> >>
MChoices == {NoM, MJacobi}
MIndefinite == << <<MinusOne, Zero>>, <<Zero, One>> >>

BRowChoices == {R2(0, 0), R2(1, 0), R2(2, 1), R2(3, 3)}
BChoices == UNION {[1..k -> BRowChoices] : k \in 1..MaxRhs}

EpsChoices == {Norm(1, 10), Norm(1, 2), One}
CgIterChoices == {1, 2, MaxCgIter}

\* every A with and without MJacobi, and SpdDiag with the indefinite preconditioner
ValidCalls ==
    {CgCall(A, B, M, eps, mx) : A \in AChoices, B \in BChoices, M \in MChoices,
                                eps \in EpsChoices, mx \in CgIterChoices}
    \cup {CgCall(SpdDiag, B, MIndefinite, eps, mx) :
              B \in BChoices, eps \in EpsChoices, mx \in CgIterChoices}

\* calls that violate a precondition: no right-hand side, eps = 0, max_cg_iter = 0
InvalidCalls ==
    {CgCall(SpdDiag, <<>>, NoM, One, 1),
     CgCall(SpdDiag, <<R2(1, 0)>>, NoM, Zero, 1),
     CgCall(SpdDiag, <<R2(1, 0)>>, NoM, One, 0)}

\* no call is active
CgIdle == [CgCall(<<>>, <<>>, NoM, Zero, 0) EXCEPT !.pc = "idle"]

\* a caller invokes conjugate_gradients with its arguments
CgInvoke ==
    /\ cg.pc = "idle"
    /\ cg' \in ValidCalls \cup InvalidCalls
    /\ UNCHANGED OtherThanCg

CgStart ==
    /\ cg.pc = "call"
    /\ CgPreconditions(cg)
    /\ cg' = CgInit(cg)
    /\ UNCHANGED OtherThanCg

CgAssertFails ==
    /\ cg.pc = "call"
    /\ ~CgPreconditions(cg)
    /\ cg' = [cg EXCEPT !.pc = "assert_failed"]
    /\ UNCHANGED OtherThanCg

CgIterate ==
    /\ cg.pc = "loop"
    /\ LoopCond(cg)
    /\ cg' = CgBody(cg)
    /\ UNCHANGED OtherThanCg

CgReturn ==
    /\ cg.pc = "loop"
    /\ ~LoopCond(cg)
    /\ cg' = [cg EXCEPT !.pc = "done",
                        !.max_residual_difference_idx = rhs_idx_max_residual_difference(cg)]
    /\ UNCHANGED OtherThanCg

\* the steps of a call that has been made
CgRun == CgStart \/ CgAssertFails \/ CgIterate \/ CgReturn

CgNext == CgInvoke \/ CgRun

-----------------------------------------------------------------------------
(* the csvm objects and data sets the model explores *)

\* the largest number of data points in A
MaxPoints == 3

\* data point k: two features with values in -1..1 and 0..3
Point(k) == <<Int2R((k % 3) - 1), Int2R((k * k) % 4)>>

DataChoices == {[k \in 1..n |-> Point(k + off)] : n \in 0..MaxPoints, off \in 0..2}

KernelTypeChoices == -1..6
GammaChoices == {GammaDefault, GammaReal(MinusOne), GammaReal(Zero), GammaReal(Norm(1, 2))}
DegreeChoices == {-1, 2}
Coef0Choices == {Zero, One}
CostChoices == {Zero, Norm(1, 2), Int2R(2)}

ParameterChoices ==
    {Parameter(k, d, g, c0, c) : k \in KernelTypeChoices, d \in DegreeChoices,
                                 g \in GammaChoices, c0 \in Coef0Choices, c \in CostChoices}

\* the constructor: the parameters are stored, then checked
DrConstruct ==
    /\ dr.pc = "idle"
    /\ \E p \in ParameterChoices :
          dr' = [dr EXCEPT !.params = p,
                           !.pc = IF sanity_check_parameter(p) = "ok"
                                  THEN "constructed" ELSE "invalid_parameter"]
    /\ UNCHANGED OtherThanDr

\* fit is called with a data set; the gamma of the run is fixed
DrFit ==
    /\ dr.pc = "constructed"
    /\ \E A \in DataChoices :
          dr' = [dr EXCEPT !.A = A, !.params = ResolveGamma(dr.params, A), !.pc = "fit"]
    /\ UNCHANGED OtherThanDr

\* perform_dimensional_reduction up to the parallel loop
DrBegin ==
    /\ dr.pc = "fit"
    /\ dr' = IF dr.A = <<>>
             THEN [dr EXCEPT !.pc = "assert_failed"]
             ELSE [dr EXCEPT !.pc = "loop",
                             !.q_red = [i \in 1..num_rows_reduced(dr.A) |-> Real(Zero)],
                             !.writes = [i \in 1..num_rows_reduced(dr.A) |-> 0],
                             !.pending = 0..(num_rows_reduced(dr.A) - 1)]
    /\ UNCHANGED OtherThanDr

\* one iteration of the parallel loop; the iterations run in any order
DrLoopIteration ==
    /\ dr.pc = "loop"
    /\ \E i \in dr.pending :
          dr' = [dr EXCEPT !.q_red[i + 1] = q_red_entry(dr.params, dr.A, i),
                           !.writes[i + 1] = @ + 1,
                           !.pending = @ \ {i}]
    /\ UNCHANGED OtherThanDr

\* after the loop: QA_cost and the return
DrReturn ==
    /\ dr.pc = "loop"
    /\ dr.pending = {}
    /\ dr' = [dr EXCEPT !.QA_cost = QA_cost(dr.params, dr.A), !.pc = "done"]
    /\ UNCHANGED OtherThanDr

DrNext == DrConstruct \/ DrFit \/ DrBegin \/ DrLoopIteration \/ DrReturn

-----------------------------------------------------------------------------
(* opencl::detail::command_queue: a wrapper around a cl_command_queue *)

MaxWrappers == 2
MaxQueues == 2
MaxReleases == 3

\* the objects of type command_queue a program may hold, and the queues
\* clCreateCommandQueue may hand out; 0 is the null handle
Wrappers == 1..MaxWrappers
Queues == 1..MaxQueues
NullQueue == 0

\* command_queue(): the members are value initialised
command_queue_default == [alive |-> TRUE, queue |-> NullQueue]

\* command_queue(context, queue, device)
command_queue(queue) == [alive |-> TRUE, queue |-> queue]

\* the implicit copy constructor and copy assignment: the members are copied
command_queue_copy(other) == [alive |-> TRUE, queue |-> other.queue]

\* the test of ~command_queue(): if (queue)
releases(w) == w.queue # NullQueue

\* clReleaseCommandQueue(queue) counted per queue
clReleaseCommandQueue(released, queue) == [released EXCEPT ![queue] = @ + 1]

\* no object exists, no queue was created, nothing was released
CqIdle ==
    [wrappers |-> [w \in Wrappers |-> [alive |-> FALSE, queue |-> NullQueue]],
     created |-> 0, released |-> [q \in Queues |-> 0], copied |-> FALSE]

-----------------------------------------------------------------------------
(* the fit calls the model explores *)

\* the csvm objects fit is called on: their parameters passed the constructor
FitParameterChoices ==
    {Parameter(k, 2, g, Zero, One) : k \in {0, 2}, g \in {GammaDefault, GammaReal(Norm(1, 2))}}

FitDataChoices == [num_features : {1, 2, 4}, has_labels : BOOLEAN]

FitEpsilonChoices ==
    {NotGiven(DefaultEpsilon)} \cup {Given(e) : e \in {MinusOne, Zero, Norm(1, 1000), Norm(1, 2)}}

FitMaxIterChoices == {NotGiven(0)} \cup {Given(n) : n \in {0, 1, 3}}

\* a caller invokes fit
FitInvoke ==
    /\ ft.pc = "idle"
    /\ \E params \in FitParameterChoices, data \in FitDataChoices,
          epsilon \in FitEpsilonChoices, max_iter \in FitMaxIterChoices :
          ft' = FitCall(params, data, epsilon, max_iter)
    /\ UNCHANGED OtherThanFt

\* fit up to the creation of the model: the named arguments and the labels are
\* checked, the gamma of the run is fixed
FitBegin ==
    /\ ft.pc = "call"
    /\ ft' = IF check_named_args(ft.epsilon, ft.max_iter) # "ok"
             THEN [ft EXCEPT !.pc = "invalid_parameter"]
             ELSE IF ~ft.data.has_labels
                  THEN [ft EXCEPT !.pc = "exception",
                                  !.epsilon_val = epsilon_val(ft.epsilon),
                                  !.max_iter_val = max_iter_val(ft.max_iter, ft.data)]
                  ELSE [ft EXCEPT !.pc = "setup",
                                  !.epsilon_val = epsilon_val(ft.epsilon),
                                  !.max_iter_val = max_iter_val(ft.max_iter, ft.data),
                                  !.reset_gamma = (FitGamma(ft.params, ft.data) # ft.params.gamma),
                                  !.params.gamma = FitGamma(ft.params, ft.data)]
    /\ UNCHANGED OtherThanFt

\* setup_data_on_device
FitSetup ==
    /\ ft.pc = "setup"
    /\ \E outcome \in backend_outcomes :
          ft' = [ft EXCEPT !.pc = IF outcome = "returned" THEN "solve" ELSE outcome,
                           !.device_setups = @ + 1]
    /\ UNCHANGED OtherThanFt

\* q, b and QA_cost are set up and the solver is invoked
FitSolve ==
    /\ ft.pc = "solve"
    /\ \E outcome \in backend_outcomes :
          ft' = [ft EXCEPT !.pc = IF outcome = "returned" THEN "solved" ELSE outcome,
                           !.solver_calls = @ + 1]
    /\ UNCHANGED OtherThanFt

\* a default gamma is reset and the model is returned
FitReturn ==
    /\ ft.pc = "solved"
    /\ ft' = [ft EXCEPT !.pc = "done", !.params.gamma = gamma_at_return(ft)]
    /\ UNCHANGED OtherThanFt

FitNext == FitInvoke \/ FitBegin \/ FitSetup \/ FitSolve \/ FitReturn

-----------------------------------------------------------------------------
(* the matrix views the model explores *)

\* the largest number of rows and columns of a view
MaxOrder == 3
\* the largest row padding of a view
MaxPadding == 2

ViewChoices ==
    {matrix_view(type, n_rows, n_cols, padding) :
        type \in matrix_type, n_rows \in 1..MaxOrder, n_cols \in 1..MaxOrder,
        padding \in 0..MaxPadding}

\* a view is constructed; a triangular view is square
MvConstruct ==
    /\ mv.pc = "idle"
    /\ \E view \in ViewChoices :
          /\ view.type # "general" => view.n_cols = view.n_rows
          /\ mv' = [mv EXCEPT !.pc = "view", !.view = view]
    /\ UNCHANGED OtherThanMv

\* operator() is applied to an element of the view
MvAccess ==
    /\ mv.pc \in {"view", "accessed"}
    /\ \E rc \in Elements(mv.view) :
          mv' = [mv EXCEPT !.pc = "accessed", !.row = rc[1], !.col = rc[2],
                           !.idx = offset(mv.view, rc[1], rc[2])]
    /\ UNCHANGED OtherThanMv

MvNext == MvConstruct \/ MvAccess

-----------------------------------------------------------------------------
(* the assemblies the model explores *)

\* the data sets: at least one row is left after the dimensional reduction
KaDataChoices == {A \in DataChoices : Len(A) >= 2}

\* for the HIP kernels also a data set whose matrix takes two thread blocks in
\* each dimension of the grid
KaGridDataChoices == {[k \in 1..(2 * THREAD_BLOCK_SIZE) |-> Point(k)]}

\* the kernels and their arguments
KaKernelChoices ==
    {<<"linear", <<>>>>, <<"polynomial", <<2, Norm(1, 2), One>>>>, <<"rbf", <<Norm(1, 2)>>>>}

KaQChoices(A) ==
    {[i \in 1..(Len(A) - 1) |-> Int2R(i)], [i \in 1..(Len(A) - 1) |-> Int2R(1 - 2 * i)]}

\* a kernel is instantiated and launched
KaLaunch ==
    /\ ka.pc = "idle"
    /\ \E backend \in {"stdpar", "HIP"}, kernel \in KaKernelChoices,
          use_gemm \in BOOLEAN, A \in KaDataChoices \cup KaGridDataChoices,
          cost \in {Zero, Norm(1, 2)} :
          \E q \in KaQChoices(A) :
             /\ backend = "stdpar" => ~use_gemm
             /\ backend = "stdpar" => A \in KaDataChoices
             /\ ka' = KaCall(backend, kernel[1], use_gemm, A, q, Int2R(2), cost, kernel[2])
    /\ UNCHANGED OtherThanKa

\* up to the parallel region: the assertions, then the work items are set up
KaBegin ==
    /\ ka.pc = "call"
    /\ ka' = IF ka.backend = "stdpar"
             THEN IF stdpar_preconditions(ka)
                  THEN [ka EXCEPT !.pc = "running", !.pending = stdpar_range(Len(ka.q))]
                  ELSE [ka EXCEPT !.pc = "assert_failed"]
             ELSE [ka EXCEPT !.pc = "running", !.pending = hip_grid(Len(ka.q))]
    /\ UNCHANGED OtherThanKa

\* one work item of the stdpar loop or one block of the HIP grid runs; they run
\* in any order
KaWorkItem ==
    /\ ka.pc = "running"
    /\ \E w \in ka.pending :
          LET stores == IF ka.backend = "stdpar"
                        THEN stdpar_work_item(ka, w[1], w[2])
                        ELSE hip_block(ka, w[1], w[2])
          IN  \E ret \in ret_after(ka.ret, stores, {v.offset : v \in stores}) :
                 ka' = [ka EXCEPT !.pending = @ \ {w}, !.writes = @ \cup stores,
                                  !.ret = ret]
    /\ UNCHANGED OtherThanKa

\* all work items are done
KaDone ==
    /\ ka.pc = "running"
    /\ ka.pending = {}
    /\ ka' = [ka EXCEPT !.pc = "done"]
    /\ UNCHANGED OtherThanKa

KaNext == KaLaunch \/ KaBegin \/ KaWorkItem \/ KaDone

-----------------------------------------------------------------------------
(* the kernel function evaluations the model explores *)

\* one evaluation: the kernel, its arguments, the two points, the per-feature
\* reductions and the value
KfCall(kernel, args, x, y) ==
    [pc |-> "call", kernel |-> kernel, args |-> args, x |-> x, y |-> y,
     reduced |-> <<>>, value |-> Real(Zero)]

KfIdle == [KfCall("linear", <<>>, <<>>, <<>>) EXCEPT !.pc = "idle"]

\* the points: the features take the values -1, 0, 1 and 0, 1
KfPointChoices == {Point(k) : k \in 0..5}

\* each kernel with the arguments of degree 2, gamma 1/2, coef0 1
KfKernelChoices ==
    {<<KernelName(k), KernelArgs(KernelName(k), Parameter(k, 2, GammaReal(Norm(1, 2)), One, One))>> :
        k \in 0..5}

\* the sum of the first k reductions
RECURSIVE Accumulate(_, _)
Accumulate(values, k) ==
    IF k = 0 THEN Zero ELSE RAdd(Accumulate(values, k - 1), values[k])

\* a kernel function is called on two points
KfInvoke ==
    /\ kf.pc = "idle"
    /\ \E kernel \in KfKernelChoices, x \in KfPointChoices, y \in KfPointChoices :
          kf' = KfCall(kernel[1], kernel[2], x, y)
    /\ UNCHANGED OtherThanKf

\* feature_reduce is applied to each pair of feature values
KfReduce ==
    /\ kf.pc = "call"
    /\ kf' = [kf EXCEPT !.pc = "reduced",
                        !.reduced = [f \in DOMAIN kf.x |->
                                        feature_reduce(kf.kernel, kf.x[f], kf.y[f])]]
    /\ UNCHANGED OtherThanKf

\* apply_kernel_function is applied to the sum of the reductions
KfApply ==
    /\ kf.pc = "reduced"
    /\ kf' = [kf EXCEPT !.pc = "done",
                        !.value = apply_kernel_function(kf.kernel,
                                      Accumulate(kf.reduced, Len(kf.reduced)), kf.args)]
    /\ UNCHANGED OtherThanKf

KfNext == KfInvoke \/ KfReduce \/ KfApply

-----------------------------------------------------------------------------
(* the linalg calls the model explores *)

\* a sequence of integers as a buffer of real_type
Reals(ints) == [k \in DOMAIN ints |-> Int2R(ints[k])]

\* the order of a triangular matrix with the given number of stored elements
OrderOf(elements) == CHOOSE n \in 0..Len(elements) : (n * (n + 1)) \div 2 = Len(elements)

Triangular(type, ints) ==
    create_shared_view(type, Reals(ints), OrderOf(ints), OrderOf(ints))

General(ints, n_rows) ==
    create_shared_view("general", Reals(ints), n_rows, Len(ints) \div n_rows)

\* lower and upper triangular matrices A of trsm: those of the tests, smaller
\* ones, and two with a zero on the diagonal
TrsmAChoices ==
    {Triangular("lower", e) : e \in {<<1, 2, 3, 4, 5, 6>>, <<2, 6, 1, -8, 5, 3>>,
                                      <<1, 2, 3>>, <<1, 2, 0>>}}
    \cup {Triangular("upper", e) : e \in {<<4, 6, 2, 3, 8, 9>>, <<2, 6, -8, 1, 5, 3>>,
                                           <<2, 1, 1>>, <<0, 1, 1>>}}

\* the right-hand sides for a matrix of order n: one column and two columns
TrsmBChoices(n) ==
    {General([k \in 1..n |-> k], n), General([k \in 1..(2 * n) |-> k], n)}

\* X: zeros_like(B), a buffer of the same shape that holds other values, or a
\* view of another shape
TrsmXChoices(B) ==
    {zeros_like(B),
     Matrix(B.view, [k \in 1..size(B.view) |-> Int2R(7)]),
     zeros_like(General([k \in 1..(3 * B.view.n_rows) |-> k], B.view.n_rows))}

\* the matrices A of direct_cholesky, as upper triangular views: the one of the
\* test, four more that are positive definite, a singular, an indefinite one
\* and one with a zero in the first place
CholeskyAChoices ==
    {Triangular("upper", e) : e \in {<<4, 12, -16, 37, -43, 98>>, <<4, 2, 2>>, <<1, 1, 2>>,
                                      <<9, 3, 5>>, <<4>>, <<4, 2, 1>>, <<1, 2, 1>>, <<0, 1, 1>>}}

\* trsm or direct_cholesky is called
LaInvoke ==
    /\ la.pc = "idle"
    /\ \/ \E A \in TrsmAChoices :
             \E B \in TrsmBChoices(A.view.n_rows) :
                \E X \in TrsmXChoices(B) : la' = LaCall("trsm", A, B, X)
       \/ \E A \in CholeskyAChoices :
             \E U \in {zeros_like(A), Matrix(A.view, [k \in 1..size(A.view) |-> Int2R(7)])} :
                la' = LaCall("direct_cholesky", A, EmptyMatrix, U)
    /\ UNCHANGED OtherThanLa

\* the assertion of trsm, then the task is submitted
LaBegin ==
    /\ la.pc = "call"
    /\ la' = IF la.op = "trsm" /\ ~trsm_preconditions(la)
             THEN [la EXCEPT !.pc = "assert_failed"]
             ELSE [la EXCEPT !.pc = "loop"]
    /\ UNCHANGED OtherThanLa

\* one pass of the loops of the single task
LaStep ==
    /\ la.pc = "loop"
    /\ la.t < la_steps(la)
    /\ la' = IF la.op = "trsm" THEN trsm_step(la) ELSE cholesky_step(la)
    /\ UNCHANGED OtherThanLa

\* the loops are done; queue.wait() returns
LaReturn ==
    /\ la.pc = "loop"
    /\ la.t = la_steps(la)
    /\ la' = [la EXCEPT !.pc = "done"]
    /\ UNCHANGED OtherThanLa

LaNext == LaInvoke \/ LaBegin \/ LaStep \/ LaReturn

-----------------------------------------------------------------------------
(* the preconditioners the model explores *)

\* the positive definite matrices K
PrKChoices ==
    {Triangular("upper", e) : e \in {<<4, 12, -16, 37, -43, 98>>, <<4, 2, 2>>, <<1, 1, 2>>,
                                      <<9, 3, 5>>, <<4>>}}

\* a soa_matrix of the given shape and padding whose element (row, col) is
\* value[<<row, col>>]; the padding entries are zero
SoaOf(x, y, padding, value) ==
    soa_matrix(x, y, padding,
               [k \in 1..((x + padding) * (y + padding)) |->
                   LET row == (k - 1) % (x + padding)
                       col == (k - 1) \div (x + padding)
                   IN  IF row < x /\ col < y THEN value[<<row, col>>] ELSE Zero])

\* the residuals R for a K of order n: one column or two, without and with padding
PrRChoices(n) ==
    {SoaOf(n, y, padding, [rc \in (0..(n - 1)) \X (0..(y - 1)) |->
                                Int2R(scale * (rc[1] + 1 + n * rc[2]))]) :
        y \in {1, 2}, padding \in {0, 1}, scale \in {1, -2, 3}}

\* precond::cholesky(K, M): M is factored, the function is returned
PrCholesky ==
    /\ pr.pc = "idle"
    /\ \E K \in PrKChoices :
          pr' = [pr EXCEPT !.pc = "built", !.K = K, !.K0 = K,
                           !.M = direct_cholesky(K, zeros_like(K)),
                           !.M0 = direct_cholesky(K, zeros_like(K))]
    /\ UNCHANGED OtherThanPr

\* the function is applied to R and S; S has the shape and the padding of R
PrApply ==
    /\ pr.pc \in {"built", "applied"}
    /\ \E R \in PrRChoices(pr.K.view.n_rows), garbage \in {Zero, Int2R(5)} :
          LET S == SoaOf(R.x, R.y, R.padding, [rc \in (0..(R.x - 1)) \X (0..(R.y - 1)) |-> Zero])
              result == apply_preconditioner(pr.M, R, S, garbage)
          IN  pr' = [pr EXCEPT !.pc = "applied", !.R = R, !.R0 = R,
                               !.S = result.S, !.Y = result.Y]
    /\ UNCHANGED OtherThanPr

PrNext == PrCholesky \/ PrApply

\* the text a stream is given to parse: the names in several spellings, other
\* words, no word, leading white space and two words
PtTextChoices ==
    {<<"n", "o", "n", "e">>,
     <<"N", "O", "N", "E">>,
     <<"N", "o", "n", "e">>,
     <<"j", "a", "c", "o", "b", "i">>,
     <<"J", "A", "C", "O", "B", "I">>,
     <<"j", "a", "C", "o", "b", "i">>,
     <<"c", "h", "o", "l", "e", "s", "k", "y">>,
     <<"C", "H", "O", "L", "E", "S", "K", "Y">>,
     <<"C", "h", "o", "l", "e", "s", "k", "y">>,
     <<"u", "n", "k", "n", "o", "w", "n">>,
     <<"n", "o", "n", "e", "e">>,
     <<"n", "o", "n">>,
     <<"j", "a", "c", "o", "b", "i", "a", "n">>,
     <<>>,
     <<" ", "n", "o", "n", "e">>,
     <<"n", "o", "n", "e", " ", "j", "a", "c", "o", "b", "i">>,
     <<"J", "A", "C", "O", "B", "I", " ", "c", "h", "o", "l", "e", "s", "k", "y">>,
     <<"x">>}

\* a value is written to an empty stream with operator<<
PtWrite ==
    /\ pt.pc = "idle"
    /\ \E value \in preconditioner_type, target \in preconditioner_type :
          pt' = [pt EXCEPT !.pc = "written", !.written = value,
                           !.stream = put_preconditioner_type(pt.stream, value),
                           !.text = put_preconditioner_type(pt.stream, value).buf,
                           !.preconditioning = target, !.before = target]
    /\ UNCHANGED OtherThanPt

\* a stream is made of a text
PtText ==
    /\ pt.pc = "idle"
    /\ \E text \in PtTextChoices, target \in preconditioner_type :
          pt' = [pt EXCEPT !.pc = "text", !.stream = Stream(text, FALSE), !.text = text,
                           !.preconditioning = target, !.before = target]
    /\ UNCHANGED OtherThanPt

\* the next word of the stream is parsed with operator>>
PtRead ==
    /\ pt.pc \in {"written", "text"}
    /\ pt.reads < MaxReads
    /\ LET got == get_preconditioner_type(pt.stream, pt.preconditioning)
       IN  pt' = [pt EXCEPT !.stream = got.in, !.before = pt.preconditioning,
                            !.preconditioning = got.preconditioning,
                            !.text = pt.stream.buf, !.reads = pt.reads + 1]
    /\ UNCHANGED OtherThanPt

PtNext == PtWrite \/ PtText \/ PtRead

\* the largest number of provider operations of one run, the largest order of
\* its matrices and its largest number of right-hand sides
MaxOps == 3
MaxTaskOrder == 2

\* the host calls a provider operation: its task is submitted to the queue
QuSubmit ==
    /\ qu.pc \in {"idle", "returned"}
    /\ qu.issued < MaxOps
    /\ \E op \in ProviderOps, n \in 1..MaxTaskOrder, k \in 1..MaxTaskOrder :
          /\ op \in {"direct_cholesky", "transpose"} => k = 1
          /\ qu' = [qu EXCEPT !.pc = "waiting", !.op = op, !.issued = @ + 1,
                              !.tasks = @ \cup {DeviceTask(qu.issued, op, n, k)}]
    /\ UNCHANGED OtherThanQu

\* the device runs one step of a task of the queue; the queue is out of order,
\* any task that has not completed may run
QuDeviceStep ==
    /\ \E t \in qu.tasks :
          /\ t.done < t.total
          /\ qu' = [qu EXCEPT !.tasks = (@ \ {t}) \cup {[t EXCEPT !.done = @ + 1]}]
    /\ UNCHANGED OtherThanQu

\* queue.wait() returns, and with it the operation
QuWait ==
    /\ qu.pc = "waiting"
    /\ queue_wait(qu.tasks)
    /\ qu' = [qu EXCEPT !.pc = "returned",
                        !.tasks = {t \in @ : t.done < t.total},
                        !.completed = @ + Cardinality({t \in qu.tasks : t.done = t.total})]
    /\ UNCHANGED OtherThanQu

QuNext == QuSubmit \/ QuDeviceStep \/ QuWait

\* a triangular matrix of the given order and padding in an allocation of
\* size_bytes elements; element (row, col) is 10 * row + col + 1
TrMatrix(type, n, padding, garbage) ==
    LET view == matrix_view(type, n, n, padding)
    IN  Matrix(view, [k \in 1..(size(view) * SizeofReal) |->
                        IF \E rc \in Elements(view) : offset(view, rc[1], rc[2]) = k - 1
                        THEN LET rc == CHOOSE rc \in Elements(view) :
                                           offset(view, rc[1], rc[2]) = k - 1
                             IN  Int2R(10 * rc[1] + rc[2] + 1)
                        ELSE garbage])

\* the matrices that are transposed: these, and those of the tests
TrChoices(garbage) ==
    {TrMatrix(type, n, padding, garbage) :
        type \in {"lower", "upper"}, n \in 1..MaxOrder, padding \in {0, 1}}
    \cup {Triangular(type, <<5, 3, 9, 7, 4, 2>>) : type \in {"lower", "upper"}}

\* helper::transpose is called: the memory is allocated, the parallel_for is
\* submitted
TrInvoke ==
    /\ tr.pc = "idle"
    /\ \E garbage \in {Zero, MinusOne} :
          \E A \in TrChoices(garbage) : tr' = TrCall(A, garbage, 1, A)
    /\ UNCHANGED OtherThanTr

\* one work item of the parallel_for runs; they run in any order
TrWorkItem ==
    /\ tr.pc = "running"
    /\ \E rc \in tr.pending :
          tr' = [tr EXCEPT !.pending = @ \ {rc},
                           !.AT = transpose_item(tr.A, tr.AT, rc[1], rc[2]),
                           !.writes = @ \cup {[item |-> rc,
                                               offset |-> offset(tr.AT.view, rc[2], rc[1])]}]
    /\ UNCHANGED OtherThanTr

\* queue.wait() returns, and the view is returned
TrReturn ==
    /\ tr.pc = "running"
    /\ tr.pending = {}
    /\ tr' = [tr EXCEPT !.pc = "done"]
    /\ UNCHANGED OtherThanTr

\* the result is transposed in turn
TrAgain ==
    /\ tr.pc = "done"
    /\ tr.round = 1
    /\ tr' = TrCall(tr.AT, tr.garbage, 2, tr.original)
    /\ UNCHANGED OtherThanTr

TrNext == TrInvoke \/ TrWorkItem \/ TrReturn \/ TrAgain

\* command_queue q{};
CqDefaultConstruct ==
    /\ \E w \in Wrappers :
          /\ ~cq.wrappers[w].alive
          /\ cq' = [cq EXCEPT !.wrappers[w] = command_queue_default]
    /\ UNCHANGED OtherThanCq

\* command_queue q{ context, clCreateCommandQueue(...), device };
CqConstruct ==
    /\ cq.created < MaxQueues
    /\ \E w \in Wrappers :
          /\ ~cq.wrappers[w].alive
          /\ cq' = [cq EXCEPT !.wrappers[w] = command_queue(cq.created + 1),
                              !.created = @ + 1]
    /\ UNCHANGED OtherThanCq

\* command_queue q{ other };
CqCopyConstruct ==
    /\ \E w, other \in Wrappers :
          /\ ~cq.wrappers[w].alive /\ cq.wrappers[other].alive
          /\ cq' = [cq EXCEPT !.wrappers[w] = command_queue_copy(cq.wrappers[other]),
                              !.copied = TRUE]
    /\ UNCHANGED OtherThanCq

\* q = other;
CqAssign ==
    /\ \E w, other \in Wrappers :
          /\ w # other
          /\ cq.wrappers[w].alive /\ cq.wrappers[other].alive
          /\ cq' = [cq EXCEPT !.wrappers[w] = command_queue_copy(cq.wrappers[other]),
                              !.copied = TRUE]
    /\ UNCHANGED OtherThanCq

\* ~command_queue()
CqDestroy ==
    /\ \E w \in Wrappers :
          /\ cq.wrappers[w].alive
          /\ releases(cq.wrappers[w]) => cq.released[cq.wrappers[w].queue] < MaxReleases
          /\ cq' = [cq EXCEPT !.wrappers[w].alive = FALSE,
                              !.released = IF releases(cq.wrappers[w])
                                           THEN clReleaseCommandQueue(@, cq.wrappers[w].queue)
                                           ELSE @]
    /\ UNCHANGED OtherThanCq

CqNext == CqDefaultConstruct \/ CqConstruct \/ CqCopyConstruct \/ CqAssign \/ CqDestroy

-----------------------------------------------------------------------------
(* the specifications *)

\* no call is active and no csvm has been constructed
Init == cg = CgIdle /\ dr = DrIdle /\ ft = FtIdle /\ mv = MvIdle
        /\ ka = KaIdle /\ kf = KfIdle /\ la = LaIdle
        /\ pr = PrIdle /\ pt = PtIdle /\ qu = QuIdle /\ tr = TrIdle /\ cq = CqIdle

SpecCG == Init /\ [][CgNext]_vars

\* a call that has been made runs on: nothing suspends the loop for good
SpecCGFair == SpecCG /\ WF_vars(CgRun)

SpecDR == Init /\ [][DrNext]_vars

SpecFit == Init /\ [][FitNext]_vars

SpecMV == Init /\ [][MvNext]_vars

SpecKA == Init /\ [][KaNext]_vars

SpecKF == Init /\ [][KfNext]_vars

SpecLA == Init /\ [][LaNext]_vars

SpecPR == Init /\ [][PrNext]_vars

SpecPT == Init /\ [][PtNext]_vars

SpecQU == Init /\ [][QuNext]_vars

SpecTR == Init /\ [][TrNext]_vars

SpecCQ == Init /\ [][CqNext]_vars

\* one operation of a csvm at a time: a solver call, a construction followed by
\* the dimensional reduction, or a fit
CsvmNext ==
    \/ dr = DrIdle /\ ft = FtIdle /\ CgNext
    \/ cg = CgIdle /\ ft = FtIdle /\ DrNext
    \/ cg = CgIdle /\ dr = DrIdle /\ FitNext

SpecCsvm == Init /\ [][CsvmNext]_vars

-----------------------------------------------------------------------------
(* what the claims say about a row, written out in real_type comparisons *)

\* delta[row] <= eps^2 * delta0[row]
WithinTolerance(eps, d, d0) == RLe(d, RMul(RMul(eps, eps), d0))

Started(s) == s.pc \in {"loop", "done"}

\* every row was within tolerance directly after the initialisation (delta = delta0)
AllConvergedAtStart(s) ==
    \A r \in DOMAIN s.delta0 : WithinTolerance(s.eps, s.delta0[r], s.delta0[r])

AllOnes(s) == [r \in DOMAIN s.B |-> [c \in DOMAIN s.B[r] |-> One]]

\* B - A * X, row by row
TrueResidual(A, B, X) ==
    [r \in DOMAIN B |-> [i \in DOMAIN B[r] |-> RSub(B[r][i], Dot(A[i], X[r]))]]

\* cg' is cg after one more execution of the loop body
IterationStep == cg.pc = "loop" /\ cg'.pc = "loop" /\ cg'.iter = cg.iter + 1

(* C1: a call with a non-empty B, eps > 0 and max_cg_iter > 0 terminates and *)
(* returns normally with 0 <= iter <= max_cg_iter and either iter =          *)
(* max_cg_iter or every row within tolerance; it never ends in an error.     *)
C1_Post(s) ==
    /\ s.iter \in 0..s.max_cg_iter
    /\ \/ s.iter = s.max_cg_iter
       \/ \A r \in DOMAIN s.delta : WithinTolerance(s.eps, s.delta[r], s.delta0[r])
    /\ DOMAIN s.X = DOMAIN s.B

C1_TerminatesNormally ==
    /\ [](CgPreconditions(cg) => cg.pc # "assert_failed" /\ cg.iter <= cg.max_cg_iter)
    /\ [](CgPreconditions(cg) /\ cg.pc = "done" => C1_Post(cg))
    /\ (CgPreconditions(cg) ~> cg.pc = "done")

\* the iteration cap is reached with a row that is not within tolerance, and the call returned
C1_Witness ==
    /\ cg.pc = "done" /\ cg.iter = cg.max_cg_iter /\ cg.max_cg_iter = MaxCgIter
    /\ \E r \in DOMAIN cg.delta : ~WithinTolerance(cg.eps, cg.delta[r], cg.delta0[r])

(* C2 as claimed: a call with max_cg_iter = 1 returns iter = 1 for every B   *)
(* and every eps > 0.                                                         *)
C2_AlwaysOneIteration ==
    cg.pc = "done" /\ cg.max_cg_iter = 1 => cg.iter = 1

(* C2 as amended: a call with max_cg_iter = 1 returns iter = 1 whenever some *)
(* row is not within tolerance directly after the initialisation, whether or *)
(* not the rows are within tolerance after that iteration, and iter = 0 when *)
(* every row is within tolerance after the initialisation.                   *)
C2_OneIterationUnlessConvergedAtStart ==
    cg.pc = "done" /\ cg.max_cg_iter = 1 =>
        cg.iter = (IF AllConvergedAtStart(cg) THEN 0 ELSE 1)

\* one iteration was made and left a row outside the tolerance
C2_Witness ==
    /\ cg.pc = "done" /\ cg.max_cg_iter = 1 /\ cg.iter = 1
    /\ \E r \in DOMAIN cg.delta : ~WithinTolerance(cg.eps, cg.delta[r], cg.delta0[r])
    /\ \E r \in DOMAIN cg.delta : IsFinite(cg.delta[r])

(* C3: if every row is within tolerance directly after the initialisation,   *)
(* no loop body is executed: iter stays 0, X stays the all-ones matrix of    *)
(* the shape of B, and no provider call follows those of the initialisation. *)
C3_ConvergedAtStartReturnsOnes ==
    Started(cg) /\ AllConvergedAtStart(cg) =>
        /\ cg.iter = 0
        /\ cg.X = AllOnes(cg)
        /\ cg.blas_calls = (IF cg.M # NoM THEN 2 ELSE 1)

\* B = A * 1: the initial residual is zero, eps < 1, and the call returned
C3_Witness ==
    /\ cg.pc = "done" /\ cg.iter = 0 /\ cg.eps # One /\ Len(cg.B) = MaxRhs
    /\ \A r \in DOMAIN cg.R : \A c \in DOMAIN cg.R[r] : cg.R[r][c] = Zero
    /\ \E r \in DOMAIN cg.B : \E c \in DOMAIN cg.B[r] : cg.B[r][c] # Zero

(* C4: an iteration modifies row r of X only if, at its start, delta[r] >    *)
(* eps^2 * delta0[r] and R_r has a non-zero entry; every other row of X is   *)
(* identical before and after the iteration.                                 *)
C4_UpdatedOnlyIfAboveTolerance ==
    [][IterationStep =>
        \A r \in DOMAIN cg.X :
            cg'.X[r] # cg.X[r] =>
                /\ RGt(cg.delta[r], RMul(RMul(cg.eps, cg.eps), cg.delta0[r]))
                /\ \E c \in DOMAIN cg.R[r] : cg.R[r][c] # Zero]_vars

(* C5: a run over several right-hand sides returns, for each row, the X row *)
(* that a run on that row alone returns for the same A, M, eps and           *)
(* max_cg_iter.                                                              *)
C5_RowsIndependent ==
    cg.pc = "done" =>
        \A r \in DOMAIN cg.B :
            cg.X[r] = conjugate_gradients(cg.A, <<cg.B[r]>>, cg.M, cg.eps, cg.max_cg_iter).X[1]

(* C6: R is recalculated as B - A * X, with one more provider call, in       *)
(* exactly the iterations with iter % 50 = 49, and is updated as             *)
(* R - alpha_row * (A * D)_row in every other one; a run of fewer than 50    *)
(* iterations never recalculates R.                                          *)
C6_RefreshEvery50th ==
    [][IterationStep =>
        LET precond == IF cg.M # NoM THEN 1 ELSE 0
            AD == [r \in DOMAIN cg.D |-> [i \in DOMAIN cg.D[r] |-> Dot(cg.A[i], cg.D[r])]]
        IN  IF cg.iter % 50 = 49
            THEN /\ cg'.R = TrueResidual(cg.A, cg.B, cg'.X)
                 /\ cg'.refreshed = cg.refreshed \cup {cg.iter}
                 /\ cg'.blas_calls = cg.blas_calls + 2 + precond
            ELSE /\ cg'.R = [r \in DOMAIN cg.R |-> [i \in DOMAIN cg.R[r] |->
                                RSub(cg.R[r][i], RMul(cg'.alpha[r], AD[r][i]))]]
                 /\ cg'.refreshed = cg.refreshed
                 /\ cg'.blas_calls = cg.blas_calls + 1 + precond
                 /\ (cg'.iter < 50 => cg'.refreshed = {})]_vars

\* a run has just passed its 50th iteration and recalculated R in it
C6_Witness == cg.pc = "loop" /\ cg.iter = 50 /\ cg.refreshed = {49}

(* C7: for a symmetric positive definite A (and preconditioner, if any) and  *)
(* max_cg_iter at least the number of unknowns, every row of the returned X  *)
(* solves A * x = b within the eps criterion: delta[row] <= eps^2 *          *)
(* delta0[row], and the residual B_row - A * X_row of the returned row       *)
(* satisfies the same bound.                                                 *)
C7_SpdConverges ==
    (cg.pc = "done" /\ cg.A \in SpdMatrices /\ cg.max_cg_iter >= Len(cg.B[1])) =>
        \A r \in DOMAIN cg.B :
            LET res == TrueResidual(cg.A, cg.B, cg.X)[r]
                s   == IF cg.M # NoM THEN [i \in DOMAIN res |-> Dot(cg.M[i], res)] ELSE res
            IN  /\ WithinTolerance(cg.eps, cg.delta[r], cg.delta0[r])
                /\ WithinTolerance(cg.eps, Dot(res, s), cg.delta0[r])

-----------------------------------------------------------------------------
(* the kernel of the table in the specification: a sum over the features of  *)
(* a per-feature term, then a transform of the sum                            *)

TableReduce(kernel, u, v) ==
    CASE kernel \in {"linear", "polynomial", "sigmoid"} -> RMul(u, v)
      [] kernel = "rbf"         -> RMul(RSub(u, v), RSub(u, v))
      [] kernel = "laplacian"   -> RAbs(RSub(u, v))
      [] kernel = "chi_squared" -> IF RAdd(u, v) = Zero THEN Zero
                                   ELSE RDiv(RMul(RSub(u, v), RSub(u, v)), RAdd(u, v))

RECURSIVE TableSum(_, _, _, _)
TableSum(kernel, x, y, dim) ==
    IF dim = 0 THEN Zero
    ELSE RAdd(TableSum(kernel, x, y, dim - 1), TableReduce(kernel, x[dim], y[dim]))

TableKernel(params, x, y) ==
    LET kernel == KernelNames[params.kernel_type + 1]
        s      == TableSum(kernel, x, y, Len(x))
        gamma  == params.gamma.value
    IN  CASE kernel = "linear"     -> Real(s)
          [] kernel = "polynomial" -> Real(pown(RAdd(RMul(gamma, s), params.coef0), params.degree))
          [] kernel = "sigmoid"    -> KernelValue("tanh", RAdd(RMul(gamma, s), params.coef0))
          [] OTHER                 -> KernelValue("exp", RNeg(RMul(gamma, s)))

(* C8: for a data matrix A with n >= 1 rows the call returns q of length     *)
(* n - 1 with q[i] = kernel(A_i, A_{n-1}) and QA_cost = kernel(A_{n-1},      *)
(* A_{n-1}) + 1/cost for each of the six kernels, every q[i] is written by   *)
(* exactly one loop iteration, and neither A nor the parameters change.      *)
C8_Post(d) ==
    LET n == Len(d.A)
    IN  /\ n >= 1
        /\ Len(d.q_red) = n - 1
        /\ \A i \in 0..(n - 2) : d.q_red[i + 1] = TableKernel(d.params, d.A[i + 1], d.A[n])
        /\ d.QA_cost = PlusReal(TableKernel(d.params, d.A[n], d.A[n]), RDiv(One, d.params.cost))
        /\ \A i \in 0..(n - 2) : d.writes[i + 1] = 1

C8_DimensionalReduction ==
    /\ [](dr.pc = "done" => C8_Post(dr))
    /\ [](dr.pc = "assert_failed" => Len(dr.A) = 0)
    /\ [][dr.pc \in {"fit", "loop"} => dr'.A = dr.A /\ dr'.params = dr.params]_vars

\* a call with the largest data matrix and the chi-squared kernel returned two
\* different entries of q and a finite QA_cost
C8_Witness ==
    /\ dr.pc = "done" /\ Len(dr.A) = MaxPoints
    /\ KernelName(dr.params.kernel_type) = "chi_squared"
    /\ dr.q_red[1] # dr.q_red[2]
    /\ IsFinite(dr.QA_cost.plus) /\ dr.QA_cost.plus # Zero

(* C9: the check raises an invalid-parameter error whenever the kernel       *)
(* type's value is outside 0..5 and whenever the kernel is not linear and    *)
(* gamma is a provided real value <= 0; it accepts a linear kernel with any  *)
(* gamma and a default gamma with any of the six kernels, whatever degree    *)
(* and coef0 are.                                                            *)
C9_SanityCheck ==
    dr.pc \in {"constructed", "invalid_parameter"} =>
        LET p        == dr.params
            rejected == dr.pc = "invalid_parameter"
        IN  /\ p.kernel_type \notin 0..5 => rejected
            /\ (p.kernel_type # 0 /\ p.gamma.is_real /\ RLe(p.gamma.value, Zero)) => rejected
            /\ (p.kernel_type \in 0..5 /\ (p.kernel_type = 0 \/ ~p.gamma.is_real)) => ~rejected

\* a polynomial..chi-squared kernel with the provided gamma 0 was rejected
C9_Witness ==
    /\ dr.pc = "invalid_parameter"
    /\ dr.params.kernel_type \in 1..5
    /\ dr.params.gamma = GammaReal(Zero)

(* C10: a parameter set with cost = 0 is rejected with an invalid-parameter  *)
(* error before the dimensional reduction evaluates 1/cost.                  *)
C10_ZeroCostRejected ==
    (dr.pc # "idle" /\ dr.params.cost = Zero) => dr.pc = "invalid_parameter"

-----------------------------------------------------------------------------
(* C11 *)

\* the call in cg violates a precondition of conjugate_gradients
CgCallViolates == cg.B = <<>> \/ RLe(cg.eps, Zero) \/ cg.max_cg_iter = 0

\* the call in ft violates a precondition of fit
FitCallViolates ==
    \/ ft.epsilon.given /\ RLe(ft.epsilon.value, Zero)
    \/ ft.max_iter.given /\ ft.max_iter.value = 0

C11_WitnessCg == cg.pc = "assert_failed" /\ cg.max_cg_iter = 0 /\ cg.blas_calls = 0

C11_WitnessDr == dr.pc = "assert_failed" /\ dr.A = <<>>

-----------------------------------------------------------------------------
(* C12 *)

\* k is the offset the claim gives for element (i, j) of an upper triangular view
\* of order n with padding p: k = i * (2n - i + 1) / 2 + (j - i) + p * i, where
\* twice the first term is i * (2n - i + 1)
IsPackedIndex(k, n, p, i, j) ==
    2 * (k - (j - i) - p * i) = i * (2 * n - i + 1)

LexLess(a, b) == a[1] < b[1] \/ (a[1] = b[1] /\ a[2] < b[2])

\* C12: an upper triangular view addresses element (i, j), i <= j, at
\* i * (2n - i + 1) / 2 + (j - i) + p * i, the division being exact; distinct
\* elements have distinct offsets; without padding the offsets are exactly
\* 0 .. n (n + 1) / 2 - 1, increasing in row-major order
C12_UpperPackedIndex ==
    (mv.pc # "idle" /\ mv.view.type = "upper") =>
        LET n == mv.view.n_rows
            p == mv.view.padding
            at(rc) == offset(mv.view, rc[1], rc[2])
        IN  /\ mv.pc = "accessed" =>
                  /\ (mv.row * (2 * n - mv.row + 1)) % 2 = 0
                  /\ IsPackedIndex(mv.idx, n, p, mv.row, mv.col)
            /\ \A a, b \in Elements(mv.view) : a # b => at(a) # at(b)
            /\ p = 0 =>
                  /\ {at(rc) : rc \in Elements(mv.view)} = 0..((n * (n + 1)) \div 2 - 1)
                  /\ \A a, b \in Elements(mv.view) : LexLess(a, b) => at(a) < at(b)

\* element (1, 2) of a padded upper triangular view of order 3 has been accessed
C12_Witness ==
    /\ mv.pc = "accessed" /\ mv.view.type = "upper"
    /\ mv.view.n_rows = 3 /\ mv.view.padding = 2
    /\ mv.row = 1 /\ mv.col = 2 /\ mv.idx = 6

-----------------------------------------------------------------------------
(* C13 *)

\* the entry (i, j), i <= j, a store is for: the stdpar work item is (i, j), the
\* HIP thread is (j, i)
EntryOf(w) ==
    IF ka.backend = "stdpar" THEN w.thread ELSE <<w.thread[2], w.thread[1]>>

\* the row padding of the packed matrix of the backend
PackedPadding == IF ka.backend = "stdpar" THEN PADDING_SIZE ELSE 0

\* the store is at the offset of the packed index formula, which is also the
\* offset an upper triangular matrix_view addresses
StoredPacked(w) ==
    LET e == EntryOf(w)
        n == Len(ka.q)
    IN  /\ e[1] <= e[2]
        /\ IsPackedIndex(w.offset, n, PackedPadding, e[1], e[2])
        /\ w.offset = upper_offset(n, PackedPadding, e[1], e[2])

\* C13 as stated: every store of an explicit assembly kernel of the stdpar and
\* the HIP backend is at the offset i * (2n - i + 1) / 2 + (j - i) + padding * i
\* of its entry (i, j), i <= j, n the reduced row count
C13_StoresAtPackedIndex ==
    \A w \in ka.writes : StoredPacked(w)

\* C13, amended: that holds for the stdpar kernel and for the HIP kernels built
\* without PLSSVM_USE_GEMM; built with it, a HIP kernel stores the entry at the
\* offsets j * n + i and i * n + j of a dense n x n matrix
C13_StoresAtPackedIndexUnlessGemm ==
    \A w \in ka.writes :
        IF ka.use_gemm
        THEN LET e == EntryOf(w)
                 n == Len(ka.q)
             IN  /\ e[1] <= e[2]
                 /\ w.offset = IF w.stmt = 1 THEN e[1] * n + e[2] ELSE e[2] * n + e[1]
        ELSE StoredPacked(w)

\* a stdpar assembly of a 2 x 2 matrix is done; entry (1, 1) went to offset 3
C13_Witness ==
    /\ ka.pc = "done" /\ ka.backend = "stdpar" /\ Len(ka.q) = 2
    /\ \E w \in ka.writes : w.thread = <<1, 1>> /\ w.offset = 3

\* a HIP assembly of a 2 x 2 matrix into the packed layout is done; entry (1, 1)
\* went to offset 2
C13_WitnessHip ==
    /\ ka.pc = "done" /\ ka.backend = "HIP" /\ ~ka.use_gemm /\ Len(ka.q) = 2
    /\ \E w \in ka.writes : w.thread = <<1, 1>> /\ w.offset = 2

-----------------------------------------------------------------------------
(* C14 *)

\* T(i, j) = kernel(A_i, A_j) + QA_cost - q[i] - q[j], plus cost when i = j, for
\* the kernel and the arguments the assembly was instantiated with
ExpectedEntry(i, j) ==
    PlusReal(kernel_function(ka.kernel, ka.A, i, ka.A, j, ka.args),
             RAdd(RSub(RSub(ka.QA_cost, ka.q[i + 1]), ka.q[j + 1]),
                  IF i = j THEN ka.cost ELSE Zero))

\* the assembly is done: every pair i <= j has its value stored, every store
\* holds the value of its pair, and every store is from a work item inside the
\* matrix
AssembledAsExpected ==
    LET n == Len(ka.q)
    IN  /\ \A i, j \in 0..(n - 1) :
              i <= j => \E w \in ka.writes : EntryOf(w) = <<i, j>>
        /\ \A w \in ka.writes :
              /\ w.thread[1] \in 0..(n - 1) /\ w.thread[2] \in 0..(n - 1)
              /\ w.value = ExpectedEntry(EntryOf(w)[1], EntryOf(w)[2])

\* C14: a finished explicit assembly has stored T(i, j) = kernel(A_i, A_j) +
\* QA_cost - q[i] - q[j] for every pair i <= j of 0..num_rows-1, with cost added
\* exactly when i = j, and no work item outside the matrix has stored anything
C14_AssemblyStoresT ==
    ka.pc = "done" => AssembledAsExpected

\* the same for the HIP kernels and for the stdpar kernel instantiated with the
\* linear kernel
C14_AssemblyStoresTHipOrLinear ==
    (ka.pc = "done" /\ (ka.backend = "HIP" \/ ka.kernel = "linear")) => AssembledAsExpected

-----------------------------------------------------------------------------
(* C15 *)

\* the per-feature reduction the claim gives for each kernel family
ClaimedReduce(kernel, u, v) ==
    CASE kernel \in {"linear", "polynomial", "sigmoid"} -> RMul(u, v)
      [] kernel = "rbf" -> RMul(RSub(u, v), RSub(u, v))
      [] kernel = "laplacian" -> IF RLe(v, u) THEN RSub(u, v) ELSE RSub(v, u)
      [] kernel = "chi_squared" ->
            IF RAdd(u, v) = Zero THEN Zero
            ELSE RDiv(RMul(RSub(u, v), RSub(u, v)), RAdd(u, v))

\* C15: feature_reduce(u, v) is the reduction of its kernel family, u * v,
\* (u - v)^2, |u - v| or (u - v)^2 / (u + v), it is 0 for chi-squared when
\* u + v = 0, and it equals feature_reduce(v, u); so the kernel value of (x, y),
\* and with it the assembled entry, equals that of (y, x)
C15_FeatureReduceSymmetric ==
    /\ kf.pc \in {"reduced", "done"} =>
          \A f \in DOMAIN kf.x :
             /\ kf.reduced[f] = ClaimedReduce(kf.kernel, kf.x[f], kf.y[f])
             /\ kf.reduced[f] = feature_reduce(kf.kernel, kf.y[f], kf.x[f])
             /\ (kf.kernel = "chi_squared" /\ RAdd(kf.x[f], kf.y[f]) = Zero) =>
                    kf.reduced[f] = Zero
             /\ IsFinite(kf.reduced[f])
    /\ kf.pc = "done" =>
          kf.value = kernel_function(kf.kernel, <<kf.y>>, 0, <<kf.x>>, 0, kf.args)

\* the chi-squared kernel has been evaluated on x = (-1, 0) and y = (1, 0), whose
\* features add up to 0
C15_Witness ==
    /\ kf.pc = "done" /\ kf.kernel = "chi_squared"
    /\ kf.x = Point(0) /\ kf.y = Point(2)
    /\ kf.reduced = <<Zero, Zero>>

-----------------------------------------------------------------------------
(* C16 *)

\* element (i, j) of the symmetric matrix an upper triangular view stands for
Sym(A, i, j) == IF i <= j THEN Get(A, i, j) ELSE Get(A, j, i)

\* the leading principal minor of order k <= 3 of the symmetric matrix
Minor(A, k) ==
    LET a(i, j) == Sym(A, i, j)
        det2(p, q, r, t) == RSub(RMul(p, t), RMul(q, r))
    IN  CASE k = 1 -> a(0, 0)
          [] k = 2 -> det2(a(0, 0), a(0, 1), a(1, 0), a(1, 1))
          [] k = 3 -> RAdd(RSub(RMul(a(0, 0), det2(a(1, 1), a(1, 2), a(2, 1), a(2, 2))),
                                RMul(a(0, 1), det2(a(1, 0), a(1, 2), a(2, 0), a(2, 2)))),
                           RMul(a(0, 2), det2(a(1, 0), a(1, 1), a(2, 0), a(2, 1))))

\* symmetric positive definite: every leading principal minor is positive
IsSPD(A) == \A k \in 1..A.view.n_rows : RGt(Minor(A, k), Zero)

\* (U^T U)(i, j) for an upper triangular U
UtU(U, i, j) ==
    LET terms == [k \in 1..(IF i <= j THEN i + 1 ELSE j + 1) |->
                     RMul(Get(U, k - 1, i), Get(U, k - 1, j))]
    IN  Accumulate(terms, Len(terms))

UpperElements(n) == {rc \in (0..(n - 1)) \X (0..(n - 1)) : rc[1] <= rc[2]}

\* C16: direct_cholesky leaves A as it was; for a symmetric positive definite A
\* it has stored every element of the upper triangular U, the diagonal of U is
\* positive, U(r, r)^2 = A(r, r) - sum_k<r U(k, r)^2 and U(r, c) = (A(r, c) -
\* sum_k<r U(k, r) U(k, c)) / U(r, r), no element was read before it was stored,
\* and U^T U = A; for the A of the test, U is 2 6 -8 / 1 5 / 3
C16_DirectCholesky ==
    la.op = "direct_cholesky" =>
        /\ la.A = la.A0
        /\ (la.pc = "done" /\ IsSPD(la.A0) /\ ~la.inexact) =>
              LET n == la.A.view.n_rows
                  U == la.X
              IN  /\ la.written = UpperElements(n)
                  /\ ~la.stale
                  /\ \A r \in 0..(n - 1) :
                        /\ RGt(Get(U, r, r), Zero)
                        /\ RMul(Get(U, r, r), Get(U, r, r)) =
                              RSub(Get(la.A, r, r), cholesky_sum(U, r, r, r))
                  /\ \A rc \in UpperElements(n) :
                        rc[1] < rc[2] =>
                           Get(U, rc[1], rc[2]) =
                              RDiv(RSub(Get(la.A, rc[1], rc[2]),
                                        cholesky_sum(U, rc[1], rc[2], rc[1])),
                                   Get(U, rc[1], rc[1]))
                  /\ \A i, j \in 0..(n - 1) : UtU(U, i, j) = Sym(la.A, i, j)
                  /\ la.A.data = Reals(<<4, 12, -16, 37, -43, 98>>) =>
                        U.data = Reals(<<2, 6, -8, 1, 5, 3>>)

\* the factorisation of the matrix of the test is done
C16_Witness ==
    /\ la.op = "direct_cholesky" /\ la.pc = "done"
    /\ la.A.data = Reals(<<4, 12, -16, 37, -43, 98>>)
    /\ IsSPD(la.A0) /\ ~la.inexact
    /\ la.X.data = Reals(<<2, 6, -8, 1, 5, 3>>)

\* every positive definite matrix the model explores has exact roots
C16_ExploredRootsExact ==
    (la.op = "direct_cholesky" /\ IsSPD(la.A0)) => ~la.inexact

-----------------------------------------------------------------------------
(* C17 *)

\* (A X)(row, col) for a triangular A
TriangularProduct(A, X, row, col) ==
    LET ks == IF A.view.type = "lower" THEN 0..row ELSE row..(A.view.n_rows - 1)
        first == IF A.view.type = "lower" THEN 0 ELSE row
        terms == [k \in 1..Cardinality(ks) |->
                     RMul(Get(A, row, first + k - 1), Get(X, first + k - 1, col))]
    IN  Accumulate(terms, Len(terms))

NonZeroDiagonal(A) == \A r \in 0..(A.view.n_rows - 1) : Get(A, r, r) # Zero

\* the solutions the tests expect
ExpectedSolutions ==
    {<<Triangular("lower", <<1, 2, 3, 4, 5, 6>>), General(<<1, 2, 3, 4, 5, 6>>, 3),
       <<One, Int2R(2), Norm(1, 3), Zero, Norm(-1, 9), Norm(-1, 3)>>>>,
     <<Triangular("lower", <<2, 6, 1, -8, 5, 3>>), General(<<1, 2, 3>>, 3),
       <<Norm(1, 2), MinusOne, Int2R(4)>>>>,
     <<Triangular("upper", <<4, 6, 2, 3, 8, 9>>), General(<<1, 2, 3, 4, 5, 6>>, 3),
       <<Norm(25, 36), Norm(5, 6), Norm(-13, 27), Norm(-4, 9),
         Norm(5, 9), Norm(6, 9)>>>>}

\* C17: trsm leaves A and B as they were; when it returns, B and X have the
\* same shape, and if the diagonal of A has no zero then every element of X was
\* stored, none was read before it was stored in this solve (forward for a lower,
\* backward for an upper triangular A), and A X = B in every column; the
\* solutions are those the tests expect
C17_TriangularSolve ==
    la.op = "trsm" =>
        /\ la.A = la.A0 /\ la.B = la.B0
        /\ la.pc \in {"loop", "done"} => trsm_preconditions(la)
        /\ (la.pc = "done" /\ NonZeroDiagonal(la.A)) =>
              /\ la.written = (0..(la.B.view.n_rows - 1)) \X (0..(la.B.view.n_cols - 1))
              /\ ~la.stale
              /\ \A row \in 0..(la.B.view.n_rows - 1), col \in 0..(la.B.view.n_cols - 1) :
                    TriangularProduct(la.A, la.X, row, col) = Get(la.B, row, col)
              /\ \A e \in ExpectedSolutions :
                    (la.A = e[1] /\ la.B = e[2]) => la.X.data = e[3]

\* the backward solve of the test with the upper triangular A is done
C17_Witness ==
    /\ la.op = "trsm" /\ la.pc = "done" /\ NonZeroDiagonal(la.A)
    /\ la.A = Triangular("upper", <<4, 6, 2, 3, 8, 9>>)
    /\ la.B = General(<<1, 2, 3, 4, 5, 6>>, 3)
    /\ Get(la.X, 1, 0) = Norm(-13, 27)

\* a forward solve of a test is done
C17_WitnessLower ==
    /\ la.op = "trsm" /\ la.pc = "done"
    /\ la.A = Triangular("lower", <<2, 6, 1, -8, 5, 3>>)
    /\ la.X.data = <<Norm(1, 2), MinusOne, Int2R(4)>>

-----------------------------------------------------------------------------
(* C18 *)

\* (K S)(row, col) for the symmetric K behind an upper triangular view and a
\* soa_matrix S
SymProduct(K, S, row, col) ==
    LET terms == [j \in 1..K.view.n_rows |-> RMul(Sym(K, row, j - 1), soa_get(S, j - 1, col))]
    IN  Accumulate(terms, Len(terms))

\* (U^T Y)(row, col) for an upper triangular U and a general view Y
UtProduct(U, Y, row, col) ==
    LET terms == [k \in 1..(row + 1) |-> RMul(Get(U, k - 1, row), Get(Y, k - 1, col))]
    IN  Accumulate(terms, Len(terms))

\* the function has solved U^T Y = R and (U^T U) S = R, and left R, K and M alone
AppliedAsClaimed ==
    /\ pr.R = pr.R0 /\ pr.K = pr.K0 /\ pr.M = pr.M0
    /\ \A row \in 0..(pr.R.x - 1), col \in 0..(pr.R.y - 1) :
          /\ UtProduct(pr.M, pr.Y, row, col) = soa_get(pr.R, row, col)
          /\ SymProduct(pr.K, pr.S, row, col) = soa_get(pr.R, row, col)
    /\ (pr.K.data = Reals(<<4, 12, -16, 37, -43, 98>>) /\ pr.R.y = 1
          /\ \A row \in 0..2 : soa_get(pr.R, row, 0) = Int2R(row + 1)) =>
          /\ \A row \in 0..2 :
                Get(pr.Y, row, 0) = <<Norm(1, 2), MinusOne, Int2R(4)>>[row + 1]
          /\ \A row \in 0..2 :
                soa_get(pr.S, row, 0) = <<Norm(343, 12), Norm(-23, 3), Norm(4, 3)>>[row + 1]

\* C18: the function precond::cholesky(K, M) returns solves U^T Y = R and then
\* U S = Y with the factor U it left in M, so that (U^T U) S = R; for the K of
\* the test and R = (1, 2, 3) it yields Y = (1/2, -1, 4) and S = (28 + 7/12,
\* -(7 + 2/3), 4/3); R, K and M are unchanged
C18_CholeskyPreconditioner ==
    pr.pc = "applied" => AppliedAsClaimed

\* the same for an R of one column without padding, as in the tests
C18_CholeskyPreconditionerOneColumnUnpadded ==
    (pr.pc = "applied" /\ pr.R.y = 1 /\ pr.R.padding = 0) => AppliedAsClaimed

\* the function has been applied to the R of the test
C18_TestReached ==
    /\ pr.pc = "applied" /\ pr.K.data = Reals(<<4, 12, -16, 37, -43, 98>>)
    /\ pr.R.y = 1 /\ pr.R.padding = 0 /\ pr.R.data = Reals(<<1, 2, 3>>)
    /\ pr.S.data = <<Norm(343, 12), Norm(-23, 3), Norm(4, 3)>>

-----------------------------------------------------------------------------
(* C19 *)

\* the name of a value of preconditioner_type
NameOf(value) ==
    CASE value = "none"     -> <<"n", "o", "n", "e">>
      [] value = "jacobi"   -> <<"j", "a", "c", "o", "b", "i">>
      [] value = "cholesky" -> <<"c", "h", "o", "l", "e", "s", "k", "y">>

\* the first word of what the stream held before it was parsed
FirstWord == Extract(Stream(pt.text, FALSE)).str

\* the values among `values` whose name the word is, in any case
Named(values, word) == {value \in values : to_lower_case(word) = NameOf(value)}

\* the first parse of a stream, for the values in `values`: a written value is
\* parsed back, a word that is a name in any case yields the value, and any other
\* word sets failbit and leaves the variable as it was
ParsedAsClaimed(values) ==
    pt.reads = 1 =>
        /\ (pt.pc = "written" /\ pt.written \in values) =>
              pt.preconditioning = pt.written /\ ~pt.stream.fail
        /\ (pt.pc = "text" /\ Named(values, FirstWord) # {}) =>
              pt.preconditioning \in Named(values, FirstWord) /\ ~pt.stream.fail
        /\ (pt.pc = "text" /\ Named(values, FirstWord) = {}) =>
              pt.preconditioning = pt.before /\ pt.stream.fail

\* C19: every value of preconditioner_type (none, jacobi, cholesky) written with
\* operator<< and parsed back with operator>> yields the same value without
\* setting failbit, parsing being case-insensitive; any string that names no
\* preconditioner sets failbit and leaves the target variable unchanged
C19_RoundTrip ==
    ParsedAsClaimed(preconditioner_type)

\* the same for none and jacobi alone, every other word counting as no name
C19_RoundTripNoneJacobi ==
    ParsedAsClaimed({"none", "jacobi"})

\* cholesky has been written and parsed back
C19_CholeskyParsed ==
    /\ pt.pc = "written" /\ pt.written = "cholesky" /\ pt.reads = 1
    /\ pt.text = <<"u", "n", "k", "n", "o", "w", "n">> /\ pt.stream.fail /\ pt.preconditioning = pt.before

\* jacobi has been written and parsed back into a variable that held another value
C19_JacobiParsed ==
    /\ pt.pc = "written" /\ pt.written = "jacobi" /\ pt.reads = 1
    /\ pt.before = "cholesky" /\ pt.preconditioning = "jacobi" /\ ~pt.stream.fail

-----------------------------------------------------------------------------
(* C20 *)

\* R is the residual of X in every row
ResidualOfX(s) == s.R = TrueResidual(s.A, s.B, s.X)

\* C20: in exact arithmetic, at the head of every iteration of the solver and at
\* its return, R_row equals B_row - A * X_row for every row, the rows whose X
\* update was masked out in earlier iterations included: the residual the
\* convergence test is evaluated on is the residual of the X that is returned
C20_ResidualOfReturnedX ==
    (CgPreconditions(cg) /\ cg.pc \in {"loop", "done"}) => ResidualOfX(cg)

\* the same while no update of X has been masked out and no step length was
\* undefined
C20_ResidualWhileUnmasked ==
    (/\ CgPreconditions(cg) /\ cg.pc \in {"loop", "done"}
     /\ \A r \in DOMAIN cg.mask : cg.mask[r] = 1
     /\ \A r \in DOMAIN cg.R : \A i \in DOMAIN cg.R[r] : ~IsNaN(cg.R[r][i]))
        => ResidualOfX(cg)

\* a call has returned an X whose residual is not R, with every value finite
C20_StaleResidualReturned ==
    /\ cg.pc = "done" /\ cg.iter >= 2 /\ ~ResidualOfX(cg)
    /\ \A r \in DOMAIN cg.R : \A i \in DOMAIN cg.R[r] :
          IsFinite(cg.R[r][i]) /\ IsFinite(cg.X[r][i])

-----------------------------------------------------------------------------
(* C21 *)

\* the 0-based indices of the right-hand sides
RhsIndices(s) == 0..(Len(s.delta) - 1)

\* the rows with a strictly positive difference delta - eps^2 * delta0
PositiveRows(s) == {i \in RhsIndices(s) : RGt(residual_difference(s, i), Zero)}

\* idx is a row with the largest difference, or 0 when no difference is positive
IsMaxDifferenceIdx(s, idx) ==
    IF PositiveRows(s) = {} THEN idx = 0
    ELSE /\ idx \in PositiveRows(s)
         /\ \A i \in PositiveRows(s) : RLe(residual_difference(s, i), residual_difference(s, idx))

\* idx is the last row with a positive difference, or 0 when no difference is positive
IsLastPositiveIdx(s, idx) ==
    IF PositiveRows(s) = {} THEN idx = 0
    ELSE idx \in PositiveRows(s) /\ \A i \in PositiveRows(s) : i <= idx

\* cg' is cg after the index has been computed: at the head of an iteration
\* or after the loop
IndexComputed == cg.pc = "loop" /\ cg'.pc \in {"loop", "done"}

\* the step from cg to cg' is the same whatever index the previous log held
IndexWithoutInfluence ==
    \A idx \in RhsIndices(cg) :
        LET other == [cg EXCEPT !.max_residual_difference_idx = idx]
        IN  cg' = IF LoopCond(cg) THEN CgBody(other)
                  ELSE [other EXCEPT !.pc = "done",
                           !.max_residual_difference_idx = rhs_idx_max_residual_difference(other)]

\* C21: the diagnostic row index computed by rhs_idx_max_residual_difference is
\* the index of the right-hand side with the largest difference delta[i] - eps^2 *
\* delta0[i] whenever some row has a strictly positive difference, and is 0 when
\* no row has one; its value never influences X, the iteration count or the
\* convergence test
C21_MaxResidualDifferenceIdx ==
    [][IndexComputed =>
          /\ IsMaxDifferenceIdx(cg, cg'.max_residual_difference_idx)
          /\ IndexWithoutInfluence]_vars

\* what the function computes: the last row with a positive difference
C21_LastPositiveIdx ==
    [][IndexComputed =>
          /\ IsLastPositiveIdx(cg, cg'.max_residual_difference_idx)
          /\ IndexWithoutInfluence]_vars

\* the call has returned with a logged index that is not the row of the largest
\* difference, every difference being finite
C21_NotTheLargest ==
    /\ cg.pc = "done" /\ cg.iter >= 1 /\ Len(cg.delta) = 2
    /\ \A i \in RhsIndices(cg) : IsFinite(residual_difference(cg, i))
    /\ ~IsMaxDifferenceIdx(cg, cg.max_residual_difference_idx)

-----------------------------------------------------------------------------
(* C22 *)

\* the packed slot of the pair (i, j), i <= j
SlotOf(i, j) == upper_offset(Len(ka.q), PackedPadding, i, j)

\* the assembly has started its work items
Assembling == ka.pc \in {"running", "done"}

\* every store goes to the packed slot of the pair of its work item
StoresToPackedSlots ==
    \A w \in ka.writes :
        EntryOf(w)[1] <= EntryOf(w)[2] /\ w.offset = SlotOf(EntryOf(w)[1], EntryOf(w)[2])

\* no slot is stored to twice
StoredOnce == \A w, v \in ka.writes : w.offset = v.offset => w = v

\* stores of different work items go to different slots
WorkItemsDisjoint == \A w, v \in ka.writes : w.offset = v.offset => w.thread = v.thread

\* a finished assembly has stored to the slot of every pair i <= j < num_rows
EveryPairStored ==
    ka.pc = "done" =>
        \A i, j \in 0..(Len(ka.q) - 1) : i <= j => \E w \in ka.writes : w.offset = SlotOf(i, j)

\* a finished assembly built with PLSSVM_USE_GEMM has stored to every slot of
\* the dense matrix
EveryDenseSlotStored ==
    ka.pc = "done" =>
        \A k \in 0..(Len(ka.q) * Len(ka.q) - 1) : \E w \in ka.writes : w.offset = k

\* the memory holds the value of every store that was made: none was overwritten
\* by a store of another value, whatever the order of the work items
EveryStoreKept ==
    /\ DOMAIN ka.ret = {w.offset : w \in ka.writes}
    /\ \A w \in ka.writes : ka.ret[w.offset] = w.value

\* what a pending work item will store does not depend on what ret holds
RetNeverRead ==
    \A w \in ka.pending :
        LET blank == [ka EXCEPT !.ret = <<>>]
        IN  IF ka.backend = "stdpar"
            THEN stdpar_work_item(ka, w[1], w[2]) = stdpar_work_item(blank, w[1], w[2])
            ELSE hip_block(ka, w[1], w[2]) = hip_block(blank, w[1], w[2])

\* C22 as stated: during explicit assembly the parallel work items write
\* pairwise distinct packed slots: every slot belonging to a pair i <= j <
\* num_rows is written by exactly one work item and exactly once, and no work
\* item reads a slot another one writes, so the assembled matrix is the same
\* under every interleaving of the work items
C22_DistinctPackedSlots ==
    Assembling =>
        /\ StoresToPackedSlots /\ StoredOnce /\ WorkItemsDisjoint /\ EveryPairStored
        /\ RetNeverRead /\ EveryStoreKept

\* C22, amended: that holds for the stdpar kernel and the HIP kernels built
\* without PLSSVM_USE_GEMM; built with it, a HIP kernel stores every slot of the
\* dense matrix, the two slots (i, j) and (j, i) from the one work item of the
\* pair and the diagonal slot twice from its work item, with the same value. In
\* every build the stores of different work items go to different slots, no work
\* item reads ret, and the assembled matrix is the same under every interleaving
C22_DistinctSlotsUnlessGemm ==
    Assembling =>
        /\ ~ka.use_gemm => StoresToPackedSlots /\ StoredOnce /\ EveryPairStored
        /\ ka.use_gemm =>
              /\ EveryDenseSlotStored
              /\ \A w, v \in ka.writes :
                    (w.offset = v.offset /\ w # v) =>
                        w.thread[1] = w.thread[2] /\ w.value = v.value
        /\ WorkItemsDisjoint /\ RetNeverRead /\ EveryStoreKept

\* a HIP assembly over two thread blocks in each dimension is done, into the
\* packed layout: the last block wrote the last slot
C22_Witness ==
    /\ ka.pc = "done" /\ ka.backend = "HIP" /\ ~ka.use_gemm
    /\ Len(ka.q) = 2 * THREAD_BLOCK_SIZE - 1
    /\ Cardinality(DOMAIN ka.ret) = (Len(ka.q) * (Len(ka.q) + 1)) \div 2
    /\ Cardinality({w.thread : w \in ka.writes}) = Cardinality(ka.writes)

\* a HIP assembly built with PLSSVM_USE_GEMM is done: the diagonal slots were
\* stored to twice
C22_WitnessGemm ==
    /\ ka.pc = "done" /\ ka.backend = "HIP" /\ ka.use_gemm
    /\ \E w, v \in ka.writes : w # v /\ w.offset = v.offset

-----------------------------------------------------------------------------
(* C23 *)

\* the tasks of the queue that have not completed
Running == {t \in qu.tasks : t.done < t.total}

\* C23: provider operations issued by one run of the solver never overlap: each
\* run_blas_level_3 call, and each trsm, direct_cholesky and transpose device
\* task, has completed and fully written its output before control returns to
\* the caller, so the next step only reads finished results and the operations
\* execute strictly one after another
C23_ProviderOpsNeverOverlap ==
    /\ Cardinality(Running) <= 1
    /\ qu.pc \in {"idle", "returned"} => Running = {}
    /\ \A t \in qu.tasks : t.id = qu.issued - 1 /\ qu.pc = "waiting"
    /\ qu.completed + Cardinality(qu.tasks) = qu.issued

\* the last operation of a run, a trsm, has returned: every task of the run has
\* completed
C23_Witness ==
    /\ qu.pc = "returned" /\ qu.issued = MaxOps /\ qu.completed = MaxOps
    /\ qu.op = "trsm" /\ qu.tasks = {}

-----------------------------------------------------------------------------
(* C24 *)

\* the result of the running transposition holds the entries of its source
\* that the given work items have copied, at the swapped index
Transposed(items) ==
    \A rc \in items : Get(tr.AT, rc[2], rc[1]) = Get(tr.A0, rc[1], rc[2])

\* the matrices of Transpose_FromLower and Transpose_FromUpper and what the
\* tests expect of their transposes
TestTransposed ==
    /\ tr.A0 = Triangular("lower", <<5, 3, 9, 7, 4, 2>>)
          => /\ Get(tr.AT, 0, 0) = Int2R(5) /\ Get(tr.AT, 0, 1) = Int2R(3)
             /\ Get(tr.AT, 0, 2) = Int2R(7) /\ Get(tr.AT, 1, 1) = Int2R(9)
             /\ Get(tr.AT, 1, 2) = Int2R(4) /\ Get(tr.AT, 2, 2) = Int2R(2)
    /\ tr.A0 = Triangular("upper", <<5, 3, 9, 7, 4, 2>>)
          => /\ Get(tr.AT, 0, 0) = Int2R(5) /\ Get(tr.AT, 1, 0) = Int2R(3)
             /\ Get(tr.AT, 1, 1) = Int2R(7) /\ Get(tr.AT, 2, 0) = Int2R(9)
             /\ Get(tr.AT, 2, 1) = Int2R(4) /\ Get(tr.AT, 2, 2) = Int2R(2)

\* C24: helper::transpose of an upper triangular view U of order n returns a
\* lower triangular view L of the same order with L(c, r) = U(r, c) for every
\* r <= c < n, and of a lower triangular view the corresponding upper one;
\* transposing twice reproduces every original entry; the source view is not
\* modified; the parallel element copies write pairwise distinct destination
\* offsets
C24_Transpose ==
    /\ tr.pc \in {"running", "done"}
          => /\ tr.A = tr.A0
             /\ tr.AT.view.type = transposed_type(tr.A0.view.type)
             /\ tr.AT.view.n_rows = tr.A0.view.n_rows
             /\ Transposed(transpose_items(tr.A0) \ tr.pending)
             /\ \A w, v \in tr.writes : w.item # v.item => w.offset # v.offset
             /\ Cardinality(tr.writes) = Cardinality(transpose_items(tr.A0) \ tr.pending)
    /\ tr.pc = "done"
          => /\ Transposed(transpose_items(tr.A0))
             /\ TestTransposed
             /\ tr.AT = transpose(tr.A0, tr.garbage)
             /\ tr.round = 2
                   => /\ tr.AT.view.type = tr.original.view.type
                      /\ \A rc \in Elements(tr.original.view) :
                            Get(tr.AT, rc[1], rc[2]) = Get(tr.original, rc[1], rc[2])

\* a padded upper triangular matrix of order three was transposed twice, six
\* work items having stored each time
C24_Witness ==
    /\ tr.pc = "done" /\ tr.round = 2
    /\ tr.original.view.type = "upper" /\ tr.original.view.n_rows = 3
    /\ tr.original.view.padding = 1
    /\ Cardinality(tr.writes) = 6

-----------------------------------------------------------------------------
(* C25 *)

\* fit has been left: by a return or by one of its exceptions
FitLeft == ft.pc \in {"done", "invalid_parameter", "exception", "backend_exception"}

\* C25: fit leaves the csvm's bound parameter set unchanged on every exit: a
\* gamma that is 0 on entry is replaced by 1/num_features only for the duration
\* of the call and is 0 again on exit, whether fit returns a model or propagates
\* an exception from device setup or from the solver
C25_ParametersRestoredOnEveryExit ==
    /\ FitLeft => ft.params = ft.params0
    /\ (ft.pc \in {"setup", "solve", "solved"} /\ ~ft.params0.gamma.is_real)
          => ft.params.gamma = GammaReal(RDiv(One, Int2R(ft.data.num_features)))

\* what fit does: the parameters are those of the entry when fit returns a model
\* or throws before the device is set up
C25_ParametersRestoredOnReturn ==
    /\ ft.pc \in {"done", "invalid_parameter", "exception"} => ft.params = ft.params0
    /\ (ft.pc \in {"setup", "solve", "solved"} /\ ~ft.params0.gamma.is_real)
          => ft.params.gamma = GammaReal(RDiv(One, Int2R(ft.data.num_features)))
    /\ ft.pc = "backend_exception" => (ft.params = ft.params0 <=> ~ft.reset_gamma)

\* the solver of a fit on a csvm without gamma has thrown: the gamma of the run
\* is still bound
C25_GammaLeftBySolverException ==
    /\ ft.pc = "backend_exception" /\ ft.solver_calls = 1
    /\ ~ft.params0.gamma.is_real
    /\ ft.params.gamma = GammaReal(RDiv(One, Int2R(ft.data.num_features)))

-----------------------------------------------------------------------------
(* C26 *)

\* the queues that were created, and whether every object has been destroyed
CreatedQueues == 1..cq.created
AllDestroyed == \A w \in Wrappers : ~cq.wrappers[w].alive

\* no queue is released twice, and every queue has been released once when the
\* objects are gone
ReleasedExactlyOnce ==
    /\ \A q \in Queues : cq.released[q] <= 1
    /\ AllDestroyed => \A q \in CreatedQueues : cq.released[q] = 1

\* the destruction of a default constructed object, or of a copy of one,
\* releases nothing
NullReleasesNothing ==
    \A w \in Wrappers :
        (cq.wrappers[w].alive /\ cq.wrappers[w].queue = NullQueue /\ ~cq'.wrappers[w].alive)
            => cq'.released = cq.released

\* C26: each cl_command_queue wrapped by opencl::detail::command_queue is
\* released exactly once over any sequence of construction, copying,
\* assignment and destruction of wrappers, and a default-constructed (null)
\* wrapper releases nothing
C26_ReleasedExactlyOnce == [][NullReleasesNothing]_vars /\ []ReleasedExactlyOnce

\* what the class does: a queue is released once per object that holds it when
\* the object is destroyed, so exactly once as long as no object is copied or
\* assigned, and a null object releases nothing
C26_ReleasedOnceWithoutCopies ==
    [][NullReleasesNothing]_vars /\ [](~cq.copied => ReleasedExactlyOnce)

\* a queue was released twice: by the object that wrapped it and by a copy
C26_ReleasedTwice ==
    /\ AllDestroyed /\ cq.copied
    /\ \E q \in CreatedQueues : cq.released[q] = 2

\* a queue was never released: its object was assigned to before it was destroyed
C26_NeverReleased ==
    /\ AllDestroyed /\ cq.copied
    /\ \E q \in CreatedQueues : cq.released[q] = 0

-----------------------------------------------------------------------------
(* C27 *)

\* the rows of s that satisfy delta[row] <= eps^2 * delta0[row]
ConvergedRows(s) ==
    {r \in DOMAIN s.delta : RowConverged(s.eps, s.delta[r], s.delta0[r])}

\* from one head of the loop to the next a converged row stays converged and
\* keeps its X row
ConvergedRowsStay ==
    (cg.pc = "loop" /\ cg'.pc = "loop")
        => /\ ConvergedRows(cg) \subseteq ConvergedRows(cg')
           /\ num_rhs_converged(cg') >= num_rhs_converged(cg)
           /\ \A r \in ConvergedRows(cg) : cg'.X[r] = cg.X[r]

\* the X row of a row that has converged at a head of the loop is what it was
\* at the first such head
ConvergedRowsKeepX ==
    (cg.pc = "loop" /\ cg'.pc = "loop")
        => \A r \in ConvergedRows(cg) \cap ConvergedRows(cg') : cg'.X[r] = cg.X[r]

\* C27: once a row satisfies delta[row] <= eps^2 * delta0[row] at the head of a
\* CG iteration it satisfies it at the head of every later iteration: the
\* number of converged rows never decreases during a run, and the X row of a
\* converged row is never updated again
C27_ConvergenceIsMonotone == [][ConvergedRowsStay]_vars

\* what the loop keeps: the X row of a row converged at the head of an iteration
\* is not updated in that iteration
C27_ConvergedRowKeptInIteration ==
    [][(cg.pc = "loop" /\ cg'.pc = "loop")
           => \A r \in ConvergedRows(cg) : cg'.X[r] = cg.X[r]]_vars

\* a row that was converged at the head of an earlier iteration is not converged
\* at this head
C27_ConvergedRowLost ==
    /\ cg.pc = "loop" /\ cg.iter >= 1 /\ cg.mask # <<>>
    /\ \E r \in DOMAIN cg.mask : cg.mask[r] = 0 /\ r \notin ConvergedRows(cg)

-----------------------------------------------------------------------------
(* C28 *)

\* C28: a CG run that has executed iter iterations has made exactly
\* 1 + iter + floor(iter / 50) run_blas_level_3 calls, which is the divisor used
\* for the reported average provider time
C28_ProviderCallCount ==
    cg.pc \in {"loop", "done"} => cg.blas_calls = avg_blas_level_3_divisor(cg)

\* what the solver does: the divisor counts the calls of a run without a
\* preconditioner; with one, the call of the initialisation and one call in every
\* iteration are made in addition and are not counted
C28_ProviderCallCountPreconditioned ==
    cg.pc \in {"loop", "done"} =>
        cg.blas_calls = avg_blas_level_3_divisor(cg) + (IF cg.M # NoM THEN 1 + cg.iter ELSE 0)

\* a preconditioned run has passed a recalculation of R and returned
C28_PreconditionedRunReturned ==
    /\ cg.pc = "done" /\ cg.M # NoM /\ cg.iter > RefreshPeriod
    /\ cg.blas_calls = 2 * cg.iter + 3

\* a run without a preconditioner has passed a recalculation of R and returned
C28_PlainRunReturned ==
    /\ cg.pc = "done" /\ cg.M = NoM /\ cg.iter > RefreshPeriod
    /\ cg.blas_calls = cg.iter + 2

-----------------------------------------------------------------------------
(* C29 *)

\* S = M * R written out entry by entry, S = R without a preconditioner
PreconditionedResidual(s) ==
    IF s.M = NoM THEN s.R
    ELSE [r \in DOMAIN s.R |-> [i \in DOMAIN s.R[r] |-> Dot(s.M[i], s.R[r])]]

\* the rows the zero-residual check takes out of the mask
RowsMaskedByZeroCheck(s) ==
    {r \in DOMAIN s.delta : UpdateMask(s)[r] # calculate_rhs_converged_mask(s)[r]}

\* C29: at the head of every CG iteration delta[row] = dot(R_row, S_row) with
\* S = M * R (S = R without a preconditioner); hence a row whose residual is
\* exactly zero has delta[row] = 0 and, whenever delta0[row] >= 0, is already
\* excluded by the convergence mask, so the extra zero-residual check can change
\* the mask only for rows with delta0[row] < 0
C29_DeltaIsResidualProduct ==
    cg.pc = "loop" =>
        /\ \A r \in DOMAIN cg.delta :
              /\ cg.delta[r] = Dot(cg.R[r], PreconditionedResidual(cg)[r])
              /\ (\A i \in DOMAIN cg.R[r] : cg.R[r][i] = Zero)
                    => /\ cg.delta[r] = Zero
                       /\ RLe(Zero, cg.delta0[r]) => calculate_rhs_converged_mask(cg)[r] = 0
        /\ \A r \in RowsMaskedByZeroCheck(cg) : RGt(Zero, cg.delta0[r])

\* the zero-residual check has taken a row with delta0 < 0 out of the mask: its
\* residual had become zero, its step length was 0/0, and its X row was kept
C29_Witness ==
    /\ cg.pc = "loop" /\ cg.iter >= 1
    /\ \E r \in DOMAIN cg.mask :
          /\ cg.mask[r] = 0 /\ RGt(Zero, cg.delta0[r])
          /\ cg.alpha[r] = NaN
          /\ \A i \in DOMAIN cg.X[r] : cg.X[r][i] # NaN

-----------------------------------------------------------------------------
(* C30 *)

\* C30: for every matrix view (general, lower or upper triangular) with row
\* padding p >= 0 and every valid index pair, the offset operator() computes is
\* strictly less than size(), the element count zeros_like and transpose use to
\* allocate, so no valid access reaches past an allocation sized by size_bytes()
C30_OffsetBelowSize ==
    mv.pc = "accessed" => mv.idx < size(mv.view)

\* what the views do: size() does not count the padding, the offset does; the
\* offset of an element of row r is below size() + p * r, so below size() in an
\* unpadded view and in the first row, and the last element of a view lies
\* p * (n_rows - 1) elements further than size() allows
C30_OffsetBelowSizePlusPadding ==
    mv.pc = "accessed" =>
        /\ mv.idx < size(mv.view) + mv.view.padding * mv.row
        /\ (mv.view.padding = 0 \/ mv.row = 0) => mv.idx < size(mv.view)
        /\ (mv.row = mv.view.n_rows - 1 /\ mv.col = mv.view.n_cols - 1)
              => mv.idx = size(mv.view) - 1 + mv.view.padding * (mv.view.n_rows - 1)

\* an element of a padded upper triangular view was accessed at an offset that
\* is not below size()
C30_AccessPastSize ==
    /\ mv.pc = "accessed" /\ mv.view.type = "upper" /\ mv.view.padding > 0
    /\ mv.idx >= size(mv.view)

=============================================================================
